---- MODULE Spec2Model ----
(***************************************************************************)
(* A model of the tsumego solver: the bitboard algebra, the Go rules       *)
(* (GoBoard, GoGame), Benson's unconditional life, the terminal oracle and *)
(* the depth-limited negamax of SolvingIteration.                          *)
(*                                                                         *)
(* A BitBoard is modelled as the set of the indices of its set bits; the   *)
(* index of a cell is column + width * row, as in BoardPosition::new, so   *)
(* that the smallest index is the first cell (the most significant bit).   *)
(* The arena is scaled down from 16 x 8 to width x height.                 *)
(***************************************************************************)
EXTENDS Integers, Sequences, FiniteSets, TLC

\* Scaled-down arena (16 x 8 in the program).
width == 3
height == 2

Cells == 0 .. (width * height - 1)

\* ------------------------------------------------------------------------
\* BitBoard (src/src/go/bit_board.rs)
\* ------------------------------------------------------------------------

BoardPosition(column, row) == column + width * row

Col(p) == p % width
Row(p) == p \div width

empty == {}

singleton(position) == {position}

Not(x) == Cells \ x

and_not(x, rhs) == x \ rhs

top_edge == {p \in Cells : Row(p) = 0}
bottom_edge == {p \in Cells : Row(p) = height - 1}
left_edge == {p \in Cells : Col(p) = 0}
right_edge == {p \in Cells : Col(p) = width - 1}

\* A bit moves one row towards row 0; the bits of row 0 fall off.
shift_up(x) == {p - width : p \in {q \in x : Row(q) > 0}}
shift_down(x) == {p + width : p \in {q \in x : Row(q) < height - 1}}
\* A bit moves one column towards column 0 inside its 16-bit lane (its row).
shift_left(x) == {p - 1 : p \in {q \in x : Col(q) > 0}}
shift_right(x) == {p + 1 : p \in {q \in x : Col(q) < width - 1}}

is_empty(x) == x = {}

is_set(x, position) == ~is_empty(x \cap singleton(position))

expand_one(x) ==
    x \cup shift_up(x) \cup shift_down(x) \cup shift_left(x) \cup shift_right(x)

RECURSIVE flood_fill_loop(_, _)
flood_fill_loop(filled, mask) ==
    LET next == expand_one(filled) \cap mask
    IN  IF next = filled THEN filled ELSE flood_fill_loop(next, mask)

\* Mutant: the seed is not cut to the mask before the loop.
flood_fill_of_uncut_seed(seed, mask) == flood_fill_loop(seed, mask)

flood_fill(seed, mask) == flood_fill_loop(seed \cap mask, mask)

interior(x) ==
    x \cap (shift_up(x) \cup bottom_edge)
      \cap (shift_down(x) \cup top_edge)
      \cap (shift_left(x) \cup right_edge)
      \cap (shift_right(x) \cup left_edge)

immediate_exterior(x) == and_not(expand_one(x), x)

\* The position of the first set bit: the smallest index.
first_cell_position(x) == CHOOSE p \in x : \A q \in x : p <= q

first_cell_board(x) == singleton(first_cell_position(x))

\* Mutant: every bit counts as a single point.
singletons_keeps_groups(x) == x

singletons(x) ==
    and_not(and_not(and_not(and_not(x, shift_up(x)), shift_down(x)),
                    shift_left(x)), shift_right(x))

count(x) == Cardinality(x)

\* Mutant: a group is the first cell and its neighbours.
RECURSIVE groups_expanding_once(_)
groups_expanding_once(remaining_groups) ==
    IF is_empty(remaining_groups) THEN <<>>
    ELSE LET first_group ==
                 expand_one(first_cell_board(remaining_groups)) \cap remaining_groups
         IN  <<first_group>> \o
             groups_expanding_once(and_not(remaining_groups, first_group))

\* BitBoardGroupIterator: the groups in the order in which next() yields them.
RECURSIVE groups(_)
groups(remaining_groups) ==
    IF is_empty(remaining_groups) THEN <<>>
    ELSE LET first_group ==
                 flood_fill(first_cell_board(remaining_groups), remaining_groups)
         IN  <<first_group>> \o groups(and_not(remaining_groups, first_group))

\* BitBoardPositionIterator: the positions in the order of next().
RECURSIVE positions(_)
positions(remaining_positions) ==
    IF is_empty(remaining_positions) THEN <<>>
    ELSE LET position == first_cell_position(remaining_positions)
         IN  <<position>> \o
             positions(and_not(remaining_positions, singleton(position)))

\* ------------------------------------------------------------------------
\* GoBoard (src/src/go.rs)
\* ------------------------------------------------------------------------

GoPlayer == {"Black", "White"}

\* Mutant: the player to move stays the same.
flip_keeps_player(player) == player

flip(player) == IF player = "Black" THEN "White" ELSE "Black"

\* Being set in both black and white denotes "out of bounds".
GoBoard_new(black, white, out_of_bounds) ==
    [white |-> white \cup out_of_bounds, black |-> black \cup out_of_bounds]

empty_cells(board) ==
    Not((board.white \ board.black) \cup (board.black \ board.white))

out_of_bounds(board) == board.white \cap board.black

\* Mutant: the stone set is one of the other colour.
set_cell_occupied_by_opponent(board, position, player) ==
    LET mask == singleton(position)
    IN  IF player = "White"
        THEN [black |-> board.black \cup mask, white |-> board.white \ mask]
        ELSE [black |-> board.black \ mask, white |-> board.white \cup mask]

set_cell_occupied(board, position, player) ==
    LET mask == singleton(position)
    IN  IF player = "Black"
        THEN [black |-> board.black \cup mask, white |-> board.white \ mask]
        ELSE [black |-> board.black \ mask, white |-> board.white \cup mask]

get_cell(board, position) ==
    LET mask == singleton(position)
    IN  IF ~is_empty(mask \cap out_of_bounds(board)) THEN "OutOfBounds"
        ELSE IF ~is_empty(mask \cap board.white) THEN "White"
        ELSE IF ~is_empty(mask \cap board.black) THEN "Black"
        ELSE "Empty"

get_bitboard_for_player(board, player) ==
    IF player = "Black" THEN board.black \ board.white
    ELSE board.white \ board.black

\* Mutant: the out-of-bounds bits are not kept in the player's word.
set_bitboard_for_player_drops_out_of_bounds(board, player, bits) ==
    IF player = "Black"
    THEN [board EXCEPT !.black = bits]
    ELSE [board EXCEPT !.white = bits]

set_bitboard_for_player(board, player, bits) ==
    IF player = "Black"
    THEN [board EXCEPT !.black = bits \cup out_of_bounds(board)]
    ELSE [board EXCEPT !.white = bits \cup out_of_bounds(board)]

\* The caller guarantees a stone at position (the code panics otherwise).
get_bitboard_at_position(board, position) ==
    LET mask == singleton(position)
        white == get_bitboard_for_player(board, "White")
        black == get_bitboard_for_player(board, "Black")
    IN  IF ~is_empty(mask \cap white) THEN white ELSE black

group_has_liberties(board, position) ==
    LET mask == get_bitboard_at_position(board, position)
        group == flood_fill(singleton(position), mask)
    IN  ~is_empty(expand_one(group) \cap empty_cells(board))

\* Mutant: only the stones that touch a cell without a stone stay; the rest
\* of their groups is taken off the board.
get_alive_groups_without_flood_fill(board, player) ==
    LET bitboard == get_bitboard_for_player(board, player)
    IN  expand_one(empty_cells(board)) \cap bitboard

get_alive_groups_for_player(board, player) ==
    LET bitboard == get_bitboard_for_player(board, player)
    IN  flood_fill(expand_one(empty_cells(board)) \cap bitboard, bitboard)

\* Mutant: the captured groups of the opponent are left on the board.
remove_dead_groups_keeps_all(board, player) == board

remove_dead_groups_for_player(board, player) ==
    set_bitboard_for_player(board, player,
                            get_alive_groups_for_player(board, player))

has_dead_groups(board) ==
    \E player \in GoPlayer :
        get_bitboard_for_player(board, player)
            # get_alive_groups_for_player(board, player)

is_out_of_bounds(board, position) ==
    ~is_empty(singleton(position) \cap out_of_bounds(board))

\* ------------------------------------------------------------------------
\* Benson's unconditional life (src/src/go/benson.rs)
\* ------------------------------------------------------------------------

small_x_enclosed_regions(board, x) ==
    LET regions == Not(get_bitboard_for_player(board, x))
        regions_with_empty_interiors ==
            flood_fill(interior(regions) \cap empty_cells(board), regions)
    IN  regions \ regions_with_empty_interiors

\* Mutant: one healthy region is enough.
one_healthy_region(board, regions, block) ==
    LET empty_intersections_in_regions == regions \cap empty_cells(board)
        unhealthy_regions ==
            flood_fill(empty_intersections_in_regions
                           \cap Not(immediate_exterior(block)), regions)
        healthy_regions == regions \cap Not(unhealthy_regions)
    IN  ~is_empty(healthy_regions)

\* Has the block got at least 2 healthy regions in regions?
more_than_one_healthy_region(board, regions, block) ==
    LET empty_intersections_in_regions == regions \cap empty_cells(board)
        unhealthy_regions ==
            flood_fill(empty_intersections_in_regions
                           \cap Not(immediate_exterior(block)), regions)
        healthy_regions == regions \cap Not(unhealthy_regions)
    IN  /\ ~is_empty(healthy_regions)
        /\ ~is_empty(healthy_regions \cap
               Not(flood_fill(first_cell_board(healthy_regions), healthy_regions)))

\* One pass of the for loop over the blocks that remained when the pass began.
RECURSIVE benson_pass(_, _, _, _, _)
benson_pass(board, regions, blockSeq, i, remaining_blocks) ==
    IF i > Len(blockSeq) THEN remaining_blocks
    ELSE benson_pass(board, regions, blockSeq, i + 1,
             IF more_than_one_healthy_region(board, regions, blockSeq[i])
             THEN remaining_blocks
             ELSE remaining_blocks \cap Not(blockSeq[i]))

\* Mutant: the removed blocks are not expanded, so no region touches them.
regions_under_removed_blocks(regions, removed_blocks) ==
    regions \cap Not(flood_fill(removed_blocks \cap regions, regions))

\* The regions that stay candidates after a pass that removed blocks.
regions_after_pass(regions, removed_blocks) ==
    regions \cap Not(flood_fill(expand_one(removed_blocks) \cap regions, regions))

RECURSIVE benson_loop(_, _, _, _)
benson_loop(board, blocks, regions, remaining_blocks) ==
    LET after == benson_pass(board, regions, groups(remaining_blocks), 1,
                             remaining_blocks)
        removed_blocks == blocks \cap Not(after)
    IN  IF after = remaining_blocks THEN remaining_blocks
        ELSE benson_loop(board, blocks, regions_after_pass(regions, removed_blocks),
                         after)

\* Mutant: the blocks are the player's word as it is, out-of-bounds bits
\* included.
unconditionally_alive_blocks_of_raw_word(board, player) ==
    LET blocks == IF player = "Black" THEN board.black ELSE board.white
    IN  benson_loop(board, blocks, small_x_enclosed_regions(board, player), blocks)

unconditionally_alive_blocks_for_player(board, player) ==
    LET blocks == get_bitboard_for_player(board, player)
    IN  benson_loop(board, blocks, small_x_enclosed_regions(board, player), blocks)

\* ------------------------------------------------------------------------
\* GoGame (src/src/go.rs)
\* ------------------------------------------------------------------------

PassState == {"NoPass", "PassedOnce", "PassedTwice"}

from_board(board, current_player) ==
    [ko_violations |-> empty, board |-> board,
     current_player |-> current_player, pass_state |-> "NoPass"]

Ok(g) == [tag |-> "Ok", game |-> g]
Err(e) == [tag |-> "Err", error |-> e]

\* A call that panics returns nothing.
Panic == [tag |-> "Panic"]

\* Mutant: a placement on a point of ko_violations is played.
place_stone_without_ko_test(g, position) ==
    IF get_cell(g.board, position) # "Empty" THEN Err("Occupied")
    ELSE IF is_out_of_bounds(g.board, position) THEN Err("OutOfBounds")
    ELSE
      LET next_player == flip(g.current_player)
          new_board ==
              remove_dead_groups_for_player(
                  set_cell_occupied(g.board, position, g.current_player),
                  next_player)
      IN  IF ~group_has_liberties(new_board, position) THEN Err("Suicidal")
          ELSE
            LET ko_violations ==
                    IF is_empty(immediate_exterior(singleton(position)) \cap
                           get_bitboard_for_player(g.board, g.current_player))
                    THEN singletons(
                             get_bitboard_for_player(g.board, next_player) \cap
                             Not(get_bitboard_for_player(new_board, next_player)))
                    ELSE empty
            IN  Ok([ko_violations |-> ko_violations, board |-> new_board,
                    current_player |-> next_player, pass_state |-> "NoPass"])

\* Mutant: the single stones taken are forbidden even when the placed
\* stone joined a friendly stone.
place_stone_ko_after_join(g, position) ==
    IF get_cell(g.board, position) # "Empty" THEN Err("Occupied")
    ELSE IF is_out_of_bounds(g.board, position) THEN Err("OutOfBounds")
    ELSE
      LET next_player == flip(g.current_player)
          new_board ==
              remove_dead_groups_for_player(
                  set_cell_occupied(g.board, position, g.current_player),
                  next_player)
      IN  IF ~group_has_liberties(new_board, position) THEN Err("Suicidal")
          ELSE IF is_set(g.ko_violations, position) THEN Err("Ko")
          ELSE
            LET ko_violations ==
                    IF TRUE
                    THEN singletons(
                             get_bitboard_for_player(g.board, next_player) \cap
                             Not(get_bitboard_for_player(new_board, next_player)))
                    ELSE empty
            IN  Ok([ko_violations |-> ko_violations, board |-> new_board,
                    current_player |-> next_player, pass_state |-> "NoPass"])

\* Mutant: no capture is remembered in ko_violations.
place_stone_records_no_ko(g, position) ==
    IF get_cell(g.board, position) # "Empty" THEN Err("Occupied")
    ELSE IF is_out_of_bounds(g.board, position) THEN Err("OutOfBounds")
    ELSE
      LET next_player == flip(g.current_player)
          new_board ==
              remove_dead_groups_for_player(
                  set_cell_occupied(g.board, position, g.current_player),
                  next_player)
      IN  IF ~group_has_liberties(new_board, position) THEN Err("Suicidal")
          ELSE IF is_set(g.ko_violations, position) THEN Err("Ko")
          ELSE Ok([ko_violations |-> empty, board |-> new_board,
                   current_player |-> next_player, pass_state |-> "NoPass"])

place_stone(g, position) ==
    IF get_cell(g.board, position) # "Empty" THEN Err("Occupied")
    ELSE IF is_out_of_bounds(g.board, position) THEN Err("OutOfBounds")
    ELSE
      LET next_player == flip(g.current_player)
          new_board ==
              remove_dead_groups_for_player(
                  set_cell_occupied(g.board, position, g.current_player),
                  next_player)
      IN  IF ~group_has_liberties(new_board, position) THEN Err("Suicidal")
          ELSE IF is_set(g.ko_violations, position) THEN Err("Ko")
          ELSE
            LET ko_violations ==
                    IF is_empty(immediate_exterior(singleton(position)) \cap
                           get_bitboard_for_player(g.board, g.current_player))
                    THEN singletons(
                             get_bitboard_for_player(g.board, next_player) \cap
                             Not(get_bitboard_for_player(new_board, next_player)))
                    ELSE empty
            IN  Ok([ko_violations |-> ko_violations, board |-> new_board,
                    current_player |-> next_player, pass_state |-> "NoPass"])

\* pass() panics when pass_state is PassedTwice.
CanPass(g) == g.pass_state # "PassedTwice"

\* Mutant: a pass after a pass is counted as the first one.
pass_never_counts_two(g) ==
    IF g.pass_state = "PassedTwice" THEN Panic
    ELSE [board |-> g.board, ko_violations |-> empty,
          current_player |-> flip(g.current_player),
          pass_state |-> "PassedOnce"]

pass(g) ==
    IF g.pass_state = "PassedTwice" THEN Panic
    ELSE [board |-> g.board, ko_violations |-> empty,
          current_player |-> flip(g.current_player),
          pass_state |-> IF g.pass_state = "NoPass" THEN "PassedOnce"
                         ELSE "PassedTwice"]

play_move(g, go_move) ==
    IF go_move.kind = "Place" THEN place_stone(g, go_move.position)
    ELSE IF pass(g) = Panic THEN Panic
    ELSE Ok(pass(g))

MovePlace(position) == [kind |-> "Place", position |-> position]
MovePass == [kind |-> "Pass"]

\* The moves whose play_move succeeds; pass() is never reached on a finished
\* game, because the search stops at it.
legal_moves(g) ==
    {MovePlace(p) : p \in {q \in Cells : place_stone(g, q).tag = "Ok"}}
        \cup (IF CanPass(g) THEN {MovePass} ELSE {})

\* generate_moves: the (game, move) pairs of the placements that succeed, in
\* the order of positions(), then the pair of the pass; pass() panics on a
\* finished game, after the placements have been collected.
RECURSIVE generate_placing_moves(_, _, _)
generate_placing_moves(g, ps, i) ==
    IF i > Len(ps) THEN <<>>
    ELSE (IF place_stone(g, ps[i]).tag = "Ok"
          THEN <<[game |-> place_stone(g, ps[i]).game, move |-> MovePlace(ps[i])]>>
          ELSE <<>>)
         \o generate_placing_moves(g, ps, i + 1)

\* The Vec a call returns.
Vec(moves) == [tag |-> "Vec", moves |-> moves]

\* Mutant: the pass is not among the generated moves.
generate_moves_without_pass(g) ==
    IF pass(g) = Panic THEN Panic
    ELSE Vec(generate_placing_moves(
                 g, positions(Not(g.board.white \cup g.board.black)), 1))

generate_moves(g) ==
    IF pass(g) = Panic THEN Panic
    ELSE Vec(generate_placing_moves(
                 g, positions(Not(g.board.white \cup g.board.black)), 1)
               \o <<[game |-> pass(g), move |-> MovePass]>>)

\* ------------------------------------------------------------------------
\* Terminal oracle (src/src/puzzle/terminal_detection.rs)
\* ------------------------------------------------------------------------

None == [tag |-> "None"]
Some(v) == [tag |-> "Some", value |-> v]

\* A conservative estimate on whether the group is dead.
is_defender_dead(board, attacker) ==
    LET attacker_alive ==
            flood_fill(expand_one(out_of_bounds(board)),
                       get_bitboard_for_player(board, attacker))
        maximum_living_shape ==
            Not(attacker_alive) \cap Not(out_of_bounds(board))
    IN  count(interior(maximum_living_shape)) < 2

\* Mutant: after two passes the player wins whenever the defender has stones.
is_terminal_ignores_player(g, player, attacker) ==
    LET defender == flip(attacker)
    IN  IF g.pass_state = "PassedTwice"
        THEN Some(~is_empty(get_bitboard_for_player(g.board, defender)))
        ELSE IF ~is_empty(unconditionally_alive_blocks_for_player(g.board, defender))
        THEN Some(defender = player)
        ELSE IF is_defender_dead(g.board, attacker)
        THEN Some(attacker = player)
        ELSE None

\* Mutant: the dead-shape test is consulted before Benson's test.
is_terminal_dead_shape_first(g, player, attacker) ==
    LET defender == flip(attacker)
    IN  IF g.pass_state = "PassedTwice"
        THEN LET defender_has_stones ==
                     ~is_empty(get_bitboard_for_player(g.board, defender))
             IN  Some((player = attacker) # defender_has_stones)
        ELSE IF is_defender_dead(g.board, attacker)
        THEN Some(attacker = player)
        ELSE IF ~is_empty(unconditionally_alive_blocks_for_player(g.board, defender))
        THEN Some(defender = player)
        ELSE None

\* Mutant: after two passes the stones of the attacker are looked for.
is_terminal_counts_attacker_stones(g, player, attacker) ==
    LET defender == flip(attacker)
    IN  IF g.pass_state = "PassedTwice"
        THEN LET defender_has_stones ==
                     ~is_empty(get_bitboard_for_player(g.board, attacker))
             IN  Some((player = attacker) # defender_has_stones)
        ELSE IF ~is_empty(unconditionally_alive_blocks_for_player(g.board, defender))
        THEN Some(defender = player)
        ELSE IF is_defender_dead(g.board, attacker)
        THEN Some(attacker = player)
        ELSE None

is_terminal(g, player, attacker) ==
    LET defender == flip(attacker)
    IN  IF g.pass_state = "PassedTwice"
        THEN LET defender_has_stones ==
                     ~is_empty(get_bitboard_for_player(g.board, defender))
             IN  Some((player = attacker) # defender_has_stones)
        ELSE IF ~is_empty(unconditionally_alive_blocks_for_player(g.board, defender))
        THEN Some(defender = player)
        ELSE IF is_defender_dead(g.board, attacker)
        THEN Some(attacker = player)
        ELSE None

\* Mutant: the attacker is White when a black stone touches out-of-bounds.
Puzzle_new_testing_black(g) ==
    [game |-> g,
     player |-> g.current_player,
     attacker |->
         IF ~is_empty(expand_one(out_of_bounds(g.board)) \cap
                get_bitboard_for_player(g.board, "Black"))
         THEN "White" ELSE "Black"]

\* Puzzle::new: the attacker is White when a white stone touches out-of-bounds.
Puzzle_new(g) ==
    [game |-> g,
     player |-> g.current_player,
     attacker |->
         IF ~is_empty(expand_one(out_of_bounds(g.board)) \cap
                get_bitboard_for_player(g.board, "White"))
         THEN "White" ELSE "Black"]

\* ------------------------------------------------------------------------
\* MoveRanker (src/src/puzzle/move_ranker.rs)
\* ------------------------------------------------------------------------

\* LinearMoveRanker::order_moves: the moves in the order generate_moves
\* builds them.
LinearMoveRanker_order_moves(g) == generate_moves(g)

\* GoBoard::playable_cells: the cells that are not out of bounds.
playable_cells(board) == Not(out_of_bounds(board))

\* The moves RandomMoveRanker::order_moves pushes before it shuffles them.
RECURSIVE place_moves(_, _)
place_moves(ps, i) ==
    IF i > Len(ps) THEN <<>> ELSE <<MovePlace(ps[i])>> \o place_moves(ps, i + 1)

pushed_moves(g) == place_moves(positions(playable_cells(g.board)), 1) \o <<MovePass>>

\* moves.shuffle(rng): shuffle is the permutation of the indices the random
\* generator produced.
shuffled(moves, shuffle) == [i \in 1..Len(moves) |-> moves[shuffle[i]]]

\* Mutant: next() returns None at the first move that play_move rejects.
RECURSIVE OrderedMovesIterator_stops_at_error(_, _)
OrderedMovesIterator_stops_at_error(g, remaining_moves) ==
    IF Len(remaining_moves) = 0 THEN Vec(<<>>)
    ELSE
      LET go_move == remaining_moves[Len(remaining_moves)]
          new_game == play_move(g, go_move)
          rest == OrderedMovesIterator_stops_at_error(g, SubSeq(remaining_moves, 1, Len(remaining_moves) - 1))
      IN  IF new_game = Panic THEN Panic
          ELSE IF new_game.tag # "Ok" THEN Vec(<<>>)
          ELSE IF rest = Panic THEN Panic
          ELSE Vec(<<[game |-> new_game.game, move |-> go_move]>> \o rest.moves)

\* OrderedMovesIterator: next() pops the last of the remaining moves until
\* play_move returns Ok; the items in the order next() yields them, or
\* Panic when play_move panics before the moves run out.
RECURSIVE OrderedMovesIterator(_, _)
OrderedMovesIterator(g, remaining_moves) ==
    IF Len(remaining_moves) = 0 THEN Vec(<<>>)
    ELSE
      LET go_move == remaining_moves[Len(remaining_moves)]
          new_game == play_move(g, go_move)
          rest == OrderedMovesIterator(g, SubSeq(remaining_moves, 1, Len(remaining_moves) - 1))
      IN  IF new_game = Panic \/ rest = Panic THEN Panic
          ELSE IF new_game.tag = "Ok"
          THEN Vec(<<[game |-> new_game.game, move |-> go_move]>> \o rest.moves)
          ELSE rest

RandomMoveRanker_order_moves(g, shuffle) == OrderedMovesIterator(g, shuffled(pushed_moves(g), shuffle))

\* ------------------------------------------------------------------------
\* SolvingIteration::negamax with the LinearMoveRanker and the
\* NoAbortController, as a function (src/src/puzzle/solving_iteration.rs)
\* ------------------------------------------------------------------------

Max(a, b) == IF a > b THEN a ELSE b

\* Mutant: the loop over the successors ends as soon as m is not a loss.
cut_off_at_undetermined(m, beta) == m >= 0

\* Mutant: the loop ends one score below beta.
cut_off_below_beta(m, beta) == m >= beta - 1

\* The test that ends the loop over the successors: if m >= beta { break }.
cut_off(m, beta) == m >= beta

\* Mutant: a node cut off by the depth counts as lost for its side.
undetermined_is_a_loss == 0 - 1

\* The score of a non-terminal node at max_depth: return Some(0).
undetermined == 0

RECURSIVE negamax(_, _, _, _, _, _, _)
RECURSIVE negamax_children(_, _, _, _, _, _, _, _, _, _)

negamax(node, alpha, beta, depth, is_maximising_player, ancestors, it) ==
    LET value == is_terminal(node, it.player, it.attacker)
    IN  IF value # None
        THEN is_maximising_player * (IF value.value THEN 1 ELSE 0 - 1)
        ELSE IF depth = it.max_depth THEN undetermined
        ELSE negamax_children(node, generate_moves(node).moves, 1, alpha, beta, 0 - 1,
                              depth, is_maximising_player, ancestors, it)

negamax_children(node, moves, i, alpha, beta, m, depth, is_maximising_player, ancestors, it) ==
    IF i > Len(moves) THEN m
    ELSE
      LET child == moves[i].game
      IN  IF child \in ancestors
          THEN negamax_children(node, moves, i + 1, alpha, beta, m, depth,
                                is_maximising_player, ancestors, it)
          ELSE
            LET t == 0 - negamax(child, 0 - beta, 0 - alpha, depth + 1,
                                 0 - is_maximising_player,
                                 ancestors \cup {child}, it)
                m2 == Max(m, t)
            IN  IF cut_off(m2, beta) THEN m2
                ELSE negamax_children(node, moves, i + 1, Max(alpha, m2), beta,
                                      m2, depth, is_maximising_player,
                                      ancestors, it)

\* SolvingIteration::solve for a puzzle and a max_depth.
solve(pz, max_depth) ==
    negamax(pz.game, 0 - 1, 1, 0, 1, {pz.game},
            [player |-> pz.player, attacker |-> pz.attacker,
             max_depth |-> max_depth])

\* The depth at which the iterative deepening of the model gives up.
MaxDepth == 2

DepthCap == [tag |-> "DepthCap"]

\* Iterative deepening without a time limit, from max_depth on: the first
\* root value of +1 or -1 gives Solution{won}.
RECURSIVE solve_iteratively(_, _)
solve_iteratively(pz, max_depth) ==
    LET value == solve(pz, max_depth)
    IN  IF value # 0 THEN Some(value > 0)
        ELSE IF max_depth < MaxDepth THEN solve_iteratively(pz, max_depth + 1)
        ELSE DepthCap

\* ------------------------------------------------------------------------
\* validate_candidate (src/src/generation/validation.rs)
\* ------------------------------------------------------------------------

Solution(won) == [won |-> won]

\* Puzzle::solve_with_timeout: None when the deadline passes before the
\* iterative deepening ends, Some(Solution) otherwise.
solve_with_timeout(pz, timed_out) ==
    IF timed_out THEN None
    ELSE LET solved == solve_iteratively(pz, 1)
         IN  IF solved = DepthCap THEN DepthCap ELSE Some(Solution(solved.value))

\* Mutant: one of the two solves being won is enough.
validate_candidate_either_won(candidate, timed_out) ==
    IF has_dead_groups(candidate) THEN None
    ELSE
      LET white_solution == solve_with_timeout(Puzzle_new(from_board(candidate, "White")), timed_out["White"])
          black_solution == solve_with_timeout(Puzzle_new(from_board(candidate, "Black")), timed_out["Black"])
      IN  IF white_solution # None /\ black_solution # None /\ (white_solution.value.won \/ black_solution.value.won)
          THEN Some(<<white_solution.value, black_solution.value>>)
          ELSE None

\* timed_out[player]: the solve with player to move runs into the timeout.
validate_candidate(candidate, timed_out) ==
    IF has_dead_groups(candidate) THEN None
    ELSE
      LET white_solution == solve_with_timeout(Puzzle_new(from_board(candidate, "White")), timed_out["White"])
          black_solution == solve_with_timeout(Puzzle_new(from_board(candidate, "Black")), timed_out["Black"])
      IN  IF white_solution # None /\ black_solution # None /\ white_solution.value.won /\ black_solution.value.won
          THEN Some(<<white_solution.value, black_solution.value>>)
          ELSE None

\* ------------------------------------------------------------------------
\* The grid of the generator: the BitBoard operations that depend on the
\* size of the board, on an arena wide enough for an area to cut the board
\* in two (16 x 8 in the program)
\* ------------------------------------------------------------------------

grid_width == 5
grid_height == 5

GridCells == 0 .. (grid_width * grid_height - 1)

GridPosition(column, row) == column + grid_width * row

GridCol(p) == p % grid_width
GridRow(p) == p \div grid_width

grid_not(x) == GridCells \ x

grid_top_edge == {p \in GridCells : GridRow(p) = 0}
grid_bottom_edge == {p \in GridCells : GridRow(p) = grid_height - 1}
grid_left_edge == {p \in GridCells : GridCol(p) = 0}
grid_right_edge == {p \in GridCells : GridCol(p) = grid_width - 1}

grid_shift_up(x) == {p - grid_width : p \in {q \in x : GridRow(q) > 0}}
grid_shift_down(x) == {p + grid_width : p \in {q \in x : GridRow(q) < grid_height - 1}}
grid_shift_left(x) == {p - 1 : p \in {q \in x : GridCol(q) > 0}}
grid_shift_right(x) == {p + 1 : p \in {q \in x : GridCol(q) < grid_width - 1}}

grid_expand_one(x) ==
    x \cup grid_shift_up(x) \cup grid_shift_down(x) \cup grid_shift_left(x) \cup grid_shift_right(x)

RECURSIVE grid_flood_fill_loop(_, _)
grid_flood_fill_loop(filled, mask) ==
    LET next == grid_expand_one(filled) \cap mask
    IN  IF next = filled THEN filled ELSE grid_flood_fill_loop(next, mask)

grid_flood_fill(seed, mask) == grid_flood_fill_loop(seed \cap mask, mask)

RECURSIVE grid_groups(_)
grid_groups(remaining_groups) ==
    IF is_empty(remaining_groups) THEN <<>>
    ELSE LET first_group ==
                 grid_flood_fill(first_cell_board(remaining_groups), remaining_groups)
         IN  <<first_group>> \o grid_groups(and_not(remaining_groups, first_group))

grid_empty_cells(board) ==
    grid_not((board.white \ board.black) \cup (board.black \ board.white))

\* BitBoardEdge and the operations on it.
BitBoardEdge == {"Top", "Bottom", "Left", "Right"}

opposite(edge) ==
    CASE edge = "Top" -> "Bottom"
      [] edge = "Bottom" -> "Top"
      [] edge = "Left" -> "Right"
      [] edge = "Right" -> "Left"

grid_edge(edge) ==
    CASE edge = "Top" -> grid_top_edge
      [] edge = "Bottom" -> grid_bottom_edge
      [] edge = "Left" -> grid_left_edge
      [] edge = "Right" -> grid_right_edge

grid_shift_towards(x, edge) ==
    CASE edge = "Top" -> grid_shift_up(x)
      [] edge = "Bottom" -> grid_shift_down(x)
      [] edge = "Left" -> grid_shift_left(x)
      [] edge = "Right" -> grid_shift_right(x)

\* BitBoard::set
set(x, position) == x \cup singleton(position)

\* ------------------------------------------------------------------------
\* generate_playable_area (src/src/generation/candidate/boundary.rs)
\* ------------------------------------------------------------------------

\* rng.gen_range(10, 30), scaled to the grid.
MinIterations == 2
MaxIterations == 6

\* The cells one iteration can add on the side of edge.
candidate_next_positions(area, edge) ==
    LET towards == grid_shift_towards(area, edge) \cap grid_not(area)
    IN  IF ~is_empty(area \cap grid_edge(opposite(edge)))
        THEN towards \cap grid_not(grid_edge(edge))
        ELSE towards

\* Iterator::max_by_key over the groups: the last group of the largest count.
max_by_count(collected) ==
    LET largest == CHOOSE i \in 1..Len(collected) :
                       /\ \A j \in 1..Len(collected) : count(collected[j]) <= count(collected[i])
                       /\ \A j \in (i + 1)..Len(collected) : count(collected[j]) < count(collected[i])
    IN  collected[largest]

\* The end of generate_playable_area: all but the largest group of the cells
\* outside the area joins the area.
fill_holes(area) == grid_not(max_by_count(grid_groups(grid_not(area))))

\* Mutant: the boundary has no diagonal neighbours of the area.
draw_boundary_without_diagonals(area) == grid_expand_one(area) \cap grid_not(area)

draw_boundary(area) ==
    (grid_expand_one(area)
        \cup grid_shift_up(grid_shift_right(area))
        \cup grid_shift_down(grid_shift_right(area))
        \cup grid_shift_up(grid_shift_left(area))
        \cup grid_shift_down(grid_shift_left(area)))
    \cap grid_not(area)

\* ------------------------------------------------------------------------
\* generate_candidate (src/src/generation/candidate.rs)
\* ------------------------------------------------------------------------

\* The stones generate_interior_stones puts on a candidate of the model.
MaxInteriorStones == 1

\* The subsets of S of n cells at most.
RECURSIVE UpTo(_, _)
UpTo(S, n) ==
    IF n = 0 THEN {{}}
    ELSE LET smaller == UpTo(S, n - 1)
         IN  smaller \cup {x \cup {p} : x \in smaller, p \in S}

\* black, white: the cells of the area generate_interior_stones filled.
generate_candidate(area, black, white, attacker) ==
    LET boundary == draw_boundary(area)
        outside == grid_not(area \cup boundary)
    IN  IF attacker = "White"
        THEN GoBoard_new(black, white \cup boundary, outside)
        ELSE GoBoard_new(black \cup boundary, white, outside)

\* ------------------------------------------------------------------------
\* SGF (src/src/go/sgf_conversion.rs): the tokens of the first node
\* ------------------------------------------------------------------------

Sgf(tokens) == [tag |-> "Sgf", tokens |-> tokens]

SgfAdd(color, coordinate) == [token |-> "Add", color |-> color, coordinate |-> coordinate]

SgfTriangle(coordinate) == [token |-> "Triangle", coordinate |-> coordinate]

to_pair(position) == <<GridCol(position), GridRow(position)>>

RECURSIVE add_tokens(_, _, _)
add_tokens(go_player, ps, i) ==
    IF i > Len(ps) THEN <<>>
    ELSE LET pair == to_pair(ps[i])
         IN  <<SgfAdd(go_player, <<pair[1] + 1, pair[2] + 1>>)>> \o add_tokens(go_player, ps, i + 1)

\* GoBoard::to_sgf: unwrap() panics on a board without out-of-bounds cells.
to_sgf(board) ==
    IF is_empty(out_of_bounds(board)) THEN Panic
    ELSE LET pair == to_pair(first_cell_position(out_of_bounds(board)))
         IN  Sgf(add_tokens("Black", positions(get_bitboard_for_player(board, "Black")), 1)
                 \o add_tokens("White", positions(get_bitboard_for_player(board, "White")), 1)
                 \o <<SgfTriangle(<<pair[1] + 1, pair[2] + 1>>)>>)

set_out_of_bounds(board, outside) ==
    LET prev_out_of_bounds == out_of_bounds(board)
    IN  [white |-> (board.white \ prev_out_of_bounds) \cup outside,
         black |-> (board.black \ prev_out_of_bounds) \cup outside]

\* The loop over the tokens of the first node: the board and the triangle.
RECURSIVE read_tokens(_, _, _, _)
read_tokens(tokens, i, board, triangle_location) ==
    IF i > Len(tokens) THEN [board |-> board, triangle_location |-> triangle_location]
    ELSE IF tokens[i].token = "Add"
    THEN read_tokens(tokens, i + 1,
                     set_cell_occupied(board,
                                       GridPosition(tokens[i].coordinate[1] - 1, tokens[i].coordinate[2] - 1),
                                       tokens[i].color),
                     triangle_location)
    ELSE read_tokens(tokens, i + 1, board,
                     Some(GridPosition(tokens[i].coordinate[1] - 1, tokens[i].coordinate[2] - 1)))

\* Mutant: the cells around the triangle become out of bounds, the region
\* itself stays in bounds.
from_sgf_region_in_bounds(tokens) ==
    LET read == read_tokens(tokens, 1, GoBoard_new(empty, empty, empty), None)
        board ==
            IF read.triangle_location # None
            THEN set_out_of_bounds(read.board,
                     and_not(grid_empty_cells(read.board),
                             grid_flood_fill(singleton(read.triangle_location.value),
                                             grid_empty_cells(read.board))))
            ELSE read.board
    IN  from_board(board, "Black")

\* GoGame::from_sgf of an SGF of one node.
from_sgf(tokens) ==
    LET read == read_tokens(tokens, 1, GoBoard_new(empty, empty, empty), None)
        board ==
            IF read.triangle_location # None
            THEN set_out_of_bounds(read.board,
                     grid_flood_fill(singleton(read.triangle_location.value),
                                     grid_empty_cells(read.board)))
            ELSE read.board
    IN  from_board(board, "Black")

\* ------------------------------------------------------------------------
\* Proof-number search (src/src/puzzle.rs, src/src/puzzle/proof_number.rs)
\* ------------------------------------------------------------------------

\* ProofNumber(u32): 0 stands for infinity, n + 1 for the number n.
infinite == 0

finite(n) == n + 1

\* Ord for ProofNumber: infinity is greater than every number.
ProofNumber_less(a, b) == a # infinite /\ (b = infinite \/ a < b)

\* Add for ProofNumber
ProofNumber_add(a, b) ==
    IF a = infinite \/ b = infinite THEN infinite ELSE (a - 1) + b

AndOrNode(proof_number, disproof_number) ==
    [proof_number |-> proof_number, disproof_number |-> disproof_number]

create_non_terminal_leaf == AndOrNode(finite(1), finite(1))

create_terminal(value) ==
    IF value THEN AndOrNode(finite(0), infinite) ELSE AndOrNode(infinite, finite(0))

is_proved(and_or_node) == and_or_node.proof_number = finite(0)

is_disproved(and_or_node) == and_or_node.disproof_number = finite(0)

is_solved(and_or_node) == is_proved(and_or_node) \/ is_disproved(and_or_node)

\* Puzzle::is_terminal: after two passes the player to pass second loses.
Puzzle_is_terminal(pz, g) ==
    LET defender == flip(pz.attacker)
    IN  IF g.pass_state = "PassedTwice" THEN Some(g.current_player = pz.player)
        ELSE IF ~is_empty(unconditionally_alive_blocks_for_player(g.board, defender))
        THEN Some(defender = pz.player)
        ELSE IF is_defender_dead(g.board, pz.attacker)
        THEN Some(pz.attacker = pz.player)
        ELSE None

\* A node of the tree is named by the moves on the edges from the root to it.
root_id == <<>>

parent_of(node_id) == SubSeq(node_id, 1, Len(node_id) - 1)

\* tree.neighbors(node_id): the targets of the edges out of the node.
neighbors(graph, node_id) ==
    {child_id \in DOMAIN graph : child_id # root_id /\ parent_of(child_id) = node_id}

\* Puzzle.current_type: Or at the root, flipped by every move down or up.
current_type(node_id) == IF Len(node_id) % 2 = 0 THEN "Or" ELSE "And"

\* The top of Puzzle.game_stack when node_id is the current node.
RECURSIVE current_game(_, _)
current_game(pz, node_id) ==
    IF node_id = root_id THEN pz.game
    ELSE play_move(current_game(pz, parent_of(node_id)), node_id[Len(node_id)]).game

\* develop_current_node: one leaf for every generated move, terminal when
\* Puzzle::is_terminal decides the successor.
develop_current_node(graph, node_id, pz) ==
    LET moves == generate_moves(current_game(pz, node_id)).moves
        new_ids == {Append(node_id, moves[i].move) : i \in 1..Len(moves)}
        new_node(new_id) ==
            LET value == Puzzle_is_terminal(pz, play_move(current_game(pz, node_id),
                                                          new_id[Len(new_id)]).game)
            IN  IF value # None THEN create_terminal(value.value)
                ELSE create_non_terminal_leaf
    IN  [id \in DOMAIN graph \cup new_ids |->
            IF id \in new_ids THEN new_node(id) ELSE graph[id]]

\* proof_number_sum, proof_number_min, disproof_number_sum,
\* disproof_number_min of set_proof_and_disproof_numbers, over the children.
RECURSIVE children_numbers(_, _)
children_numbers(graph, ids) ==
    IF ids = {}
    THEN [proof_number_sum |-> finite(0), proof_number_min |-> infinite,
          disproof_number_sum |-> finite(0), disproof_number_min |-> infinite]
    ELSE LET child_id == CHOOSE id \in ids : TRUE
             child == graph[child_id]
             rest == children_numbers(graph, ids \ {child_id})
         IN  [proof_number_sum |-> ProofNumber_add(rest.proof_number_sum, child.proof_number),
              proof_number_min |->
                  IF ProofNumber_less(child.proof_number, rest.proof_number_min)
                  THEN child.proof_number ELSE rest.proof_number_min,
              disproof_number_sum |->
                  ProofNumber_add(rest.disproof_number_sum, child.disproof_number),
              disproof_number_min |->
                  IF ProofNumber_less(child.disproof_number, rest.disproof_number_min)
                  THEN child.disproof_number ELSE rest.disproof_number_min]

\* set_proof_and_disproof_numbers: the numbers of the current node.
set_proof_and_disproof_numbers(graph, node_id) ==
    LET numbers == children_numbers(graph, neighbors(graph, node_id))
    IN  IF current_type(node_id) = "And"
        THEN AndOrNode(numbers.proof_number_sum, numbers.disproof_number_min)
        ELSE AndOrNode(numbers.proof_number_min, numbers.disproof_number_sum)

\* The ids below node_id.
descendants(graph, node_id) ==
    {id \in DOMAIN graph :
        Len(id) > Len(node_id) /\ SubSeq(id, 1, Len(node_id)) = node_id}

\* Mutant: the children of a solved root are removed as well.
prune_if_solved_also_at_the_root(graph, node_id) ==
    IF is_solved(graph[node_id])
    THEN [id \in DOMAIN graph \ descendants(graph, node_id) |-> graph[id]]
    ELSE graph

\* prune_if_solved: the children of a solved node other than the root are
\* removed; what hung below them can no longer be reached from the root.
prune_if_solved(graph, node_id) ==
    IF node_id = root_id THEN graph
    ELSE IF is_solved(graph[node_id])
    THEN [id \in DOMAIN graph \ descendants(graph, node_id) |-> graph[id]]
    ELSE graph

\* ------------------------------------------------------------------------
\* State
\* ------------------------------------------------------------------------

VARIABLES
    game,      \* the current GoGame
    last,      \* the last call on game: its kind, the Game it was applied to,
               \* its move, what it returned, the stones it captured, and
               \* the kind, move and captures of the call before it
    safe,      \* per player: the stones Benson's test returned since the
               \* player last placed a stone
    puzzle,    \* the game, player and attacker given to the oracle / solver
    verdict,   \* the value is_terminal returned for puzzle
    controller,     \* the session's AbortController: "NoAbort" or "Timeout"
    deadline,       \* TimeoutAbortController: Instant::now() >= timeout_at
    max_depth,      \* SolvingIteration.max_depth
    stack,          \* the frames of the negamax calls in progress
    parents,        \* SolvingSession.parents
    parents_before, \* parents when solve was entered
    ret,            \* the value a negamax call has just returned to its caller
    pc,             \* "ready", "negamax", "returned" or "done"
    result,         \* what SolvingIteration::solve returned
    answer,         \* what the iterative deepening returned
    visited,        \* Profile.visited_nodes, kept to its last bit
    aborting,       \* a negamax call has seen should_abort() return true
    invoked,        \* a call of a function of the library: its name and arguments
    returned,       \* what that call returned
    playable_area,  \* generate_playable_area: the area grown so far
    iterations,     \* generate_playable_area: the iterations still to run
    filled_area,      \* the area generate_playable_area returned
    candidate,      \* the GoBoard generate_candidate returned
    sgf,            \* the tokens of the first node of an SGF string
    parsed,         \* the GoGame from_sgf returned for sgf
    tree,           \* Puzzle.tree: the AndOrNode of every node, by the moves
                    \* on the edges from the root to it
    current_node_id,  \* Puzzle.current_node_id, as those moves
    phase,          \* where Puzzle::solve stands in its iteration
    first_move      \* what Puzzle::first_move returned

gameVars == <<game, last, safe>>
termVars == <<puzzle, verdict>>
solveVars == <<controller, deadline, max_depth, stack, parents, parents_before,
               ret, pc, result, answer, visited, aborting>>
fnVars == <<invoked, returned>>
genVars == <<playable_area, iterations, filled_area, candidate, sgf, parsed>>
pnVars == <<tree, current_node_id, phase, first_move>>
vars == <<game, last, safe, puzzle, verdict, controller, deadline, max_depth,
          stack, parents, parents_before, ret, pc, result, answer, visited,
          aborting, invoked, returned, playable_area, iterations, filled_area,
          candidate, sgf, parsed, tree, current_node_id, phase, first_move>>

\* Every GoBoard::new(black, white, out_of_bounds) of pairwise disjoint sets:
\* the two words of the board take every pair of values, a cell set in
\* both being out of bounds.
Boards == [white : SUBSET Cells, black : SUBSET Cells]

OutOfBoundsCells(board) == {p \in Cells : is_out_of_bounds(board, p)}

stone_count(board) ==
    count(get_bitboard_for_player(board, "Black")) +
    count(get_bitboard_for_player(board, "White"))

unconditionally_alive(board) ==
    [x \in GoPlayer |-> unconditionally_alive_blocks_for_player(board, x)]

Unset == [tag |-> "Unset"]

\* The cells whose stone is on the board of before and not on the board of
\* the Game a call returned.
taken_by(before, outcome) ==
    IF outcome.tag = "Ok"
    THEN (before.board.white \cup before.board.black)
             \ (outcome.game.board.white \cup outcome.game.board.black)
    ELSE {}

NoCall == [kind |-> "none", move |-> None, taken |-> {}]

\* What a later call remembers of a call.
Prior(call) == [kind |-> call.kind, move |-> call.move, taken |-> call.taken]

\* The record of a call: kind is "init", "place", "pass", "fail" or
\* "generate"; before is the Game the call was applied to, prior is the
\* call that returned that Game.
Call(kind, before, move, outcome, prior) ==
    [kind |-> kind, before |-> before, move |-> move, outcome |-> outcome,
     taken |-> taken_by(before, outcome),
     captured |-> Cardinality(taken_by(before, outcome)),
     prior |-> prior]

GameIdle ==
    /\ game = from_board(GoBoard_new({}, {}, {}), "Black")
    /\ last = Call("init", game, None, Ok(game), NoCall)
    /\ safe = [x \in GoPlayer |-> {}]

TermIdle ==
    /\ puzzle = Puzzle_new(from_board(GoBoard_new({}, {}, {}), "Black"))
    /\ verdict = Unset

FnIdle ==
    /\ invoked = Unset
    /\ returned = Unset

GenIdle ==
    /\ playable_area = empty
    /\ iterations = 0
    /\ filled_area = Unset
    /\ candidate = Unset
    /\ sgf = Unset
    /\ parsed = Unset

\* No proof-number search: the tree of a Puzzle that was never solved.
PnIdle ==
    /\ tree = [id \in {root_id} |-> create_non_terminal_leaf]
    /\ current_node_id = root_id
    /\ phase = "idle"
    /\ first_move = [tag |-> "Unset"]

SolveIdle ==
    /\ controller = "NoAbort"
    /\ deadline = FALSE
    /\ max_depth = 0
    /\ stack = <<>>
    /\ parents = {}
    /\ parents_before = {}
    /\ ret = Unset
    /\ pc = "done"
    /\ result = Unset
    /\ answer = Unset
    /\ visited = 0
    /\ aborting = FALSE

\* ------------------------------------------------------------------------
\* Spec: playing moves on a GoGame
\* ------------------------------------------------------------------------

\* GoGame::from_board on a board without captured groups.
Init ==
    /\ \E board \in Boards, current_player \in GoPlayer :
          /\ ~has_dead_groups(board)
          /\ game = from_board(board, current_player)
    /\ last = Call("init", game, None, Ok(game), NoCall)
    /\ safe = unconditionally_alive(game.board)
    /\ TermIdle
    /\ SolveIdle
    /\ FnIdle
    /\ GenIdle
    /\ PnIdle

\* The last call returned no Game. game is as it was before that call, so
\* every step from here is a step of the state before it, and is taken there.
Probed == last.kind \in {"fail", "generate"}

\* play_move(Move::Place(position)) returning Ok.
Place(position) ==
    LET r == play_move(game, MovePlace(position))
    IN  /\ ~Probed
        /\ r.tag = "Ok"
        /\ game' = r.game
        /\ last' = Call("place", game, MovePlace(position), r, Prior(last))
        /\ safe' = [x \in GoPlayer |->
                       IF x = game.current_player
                       THEN unconditionally_alive(r.game.board)[x]
                       ELSE safe[x] \cup unconditionally_alive(r.game.board)[x]]
        /\ UNCHANGED <<termVars, solveVars, fnVars, genVars, pnVars>>

\* play_move(Move::Pass) returning Ok.
Pass ==
    LET r == play_move(game, MovePass)
    IN  /\ ~Probed
        /\ r.tag = "Ok"
        /\ game' = r.game
        /\ last' = Call("pass", game, MovePass, r, Prior(last))
        /\ safe' = safe
        /\ UNCHANGED <<termVars, solveVars, fnVars, genVars, pnVars>>

\* play_move returning an error, or panicking: no Game is produced, and the
\* Game it was called on stays as it is.
Fail(go_move) ==
    LET r == play_move(game, go_move)
    IN  /\ ~Probed
        /\ r.tag # "Ok"
        /\ last' = Call("fail", game, go_move, r, Prior(last))
        /\ UNCHANGED <<game, safe, termVars, solveVars, fnVars, genVars, pnVars>>

\* generate_moves() on the current Game.
Generate ==
    /\ ~Probed
    /\ last' = Call("generate", game, None, generate_moves(game), Prior(last))
    /\ UNCHANGED <<game, safe, termVars, solveVars, fnVars, genVars, pnVars>>

Next ==
    \/ \E position \in Cells : Place(position)
    \/ Pass
    \/ \E go_move \in {MovePlace(position) : position \in Cells} \cup {MovePass} :
           Fail(go_move)
    \/ Generate

Spec == Init /\ [][Next]_vars

\* ------------------------------------------------------------------------
\* TermSpec: the terminal oracle applied to a game, a player and an attacker
\* ------------------------------------------------------------------------

TermInit ==
    /\ GameIdle
    /\ SolveIdle
    /\ FnIdle
    /\ GenIdle
    /\ PnIdle
    /\ \E board \in Boards, current_player \in GoPlayer,
          pass_state \in PassState, player \in GoPlayer, attacker \in GoPlayer :
          /\ ~has_dead_groups(board)
          /\ puzzle = [game |-> [from_board(board, current_player)
                                     EXCEPT !.pass_state = pass_state],
                       player |-> player, attacker |-> attacker]
    /\ verdict = Unset

Evaluate ==
    /\ verdict = Unset
    /\ verdict' = is_terminal(puzzle.game, puzzle.player, puzzle.attacker)
    /\ UNCHANGED <<puzzle, gameVars, solveVars, fnVars, genVars, pnVars>>

TermNext == Evaluate

TermSpec == TermInit /\ [][TermNext]_vars

\* ------------------------------------------------------------------------
\* SolveSpec: iterative deepening over SolvingIteration::solve, the negamax
\* calls as frames on a stack, any MoveRanker, either AbortController
\* ------------------------------------------------------------------------

\* The stones on the board of a puzzle of the model.
MaxInitStones == 1

\* The puzzles of the model: the out-of-bounds cells are the first cells of
\* the left column, at most MaxInitStones stones are on the board, and either
\* player is to move. Puzzle::new tells the attacker from the board.
SolveBoards ==
    {b \in Boards :
        /\ ~has_dead_groups(b)
        /\ stone_count(b) <= MaxInitStones
        /\ \E k \in 1..height :
               OutOfBoundsCells(b) = {BoardPosition(0, r) : r \in 0..(k - 1)}}

SolvePuzzles ==
    {Puzzle_new(from_board(board, current_player)) :
         board \in SolveBoards, current_player \in GoPlayer}

Frame(node, alpha, beta, depth, is_maximising_player) ==
    [node |-> node, alpha |-> alpha, beta |-> beta, depth |-> depth,
     is_maximising_player |-> is_maximising_player,
     m |-> 0 - 1, remaining |-> {}, stage |-> "enter", child |-> node]

Top == stack[Len(stack)]
Pop == SubSeq(stack, 1, Len(stack) - 1)
ReplaceTop(frame) == [stack EXCEPT ![Len(stack)] = frame]

\* AbortController::should_abort
should_abort == controller = "Timeout" /\ deadline

SolveInit ==
    /\ GameIdle
    /\ FnIdle
    /\ GenIdle
    /\ PnIdle
    /\ puzzle \in SolvePuzzles
    /\ verdict = Unset
    /\ controller \in {"NoAbort", "Timeout"}
    /\ deadline = FALSE
    /\ max_depth = 1
    /\ stack = <<>>
    /\ parents = {}
    /\ parents_before = {}
    /\ ret = Unset
    /\ pc = "ready"
    /\ result = Unset
    /\ answer = Unset
    /\ visited = 0
    /\ aborting = FALSE

\* The clock reaches timeout_at.
DeadlinePasses ==
    /\ controller = "Timeout"
    /\ ~deadline
    /\ pc # "done"
    /\ deadline' = TRUE
    /\ UNCHANGED <<fnVars, genVars, gameVars, termVars, controller, max_depth, stack, parents,
                   parents_before, ret, pc, result, answer, visited, aborting, pnVars>>

\* solve: the root is inserted into parents and negamax is called on it.
SolveBegin ==
    /\ pc = "ready"
    /\ parents_before' = parents
    /\ parents' = parents \cup {puzzle.game}
    /\ stack' = <<Frame(puzzle.game, 0 - 1, 1, 0, 1)>>
    /\ ret' = Unset
    /\ result' = Unset
    /\ pc' = "negamax"
    /\ UNCHANGED <<fnVars, genVars, gameVars, termVars, controller, deadline, max_depth, answer,
                   visited, aborting, pnVars>>

\* Mutant: an aborted call returns the score of a lost position.
abort_value_is_a_loss == Some(0 - 1)

\* What a negamax call returns when should_abort() is true.
abort_value == None

\* Mutant: the depth cut-off is tested before the terminal test.
Enter_cuts_off_before_terminal_test ==
    /\ pc = "negamax"
    /\ stack # <<>>
    /\ Top.stage = "enter"
    /\ IF should_abort
       THEN /\ ret' = abort_value
            /\ stack' = Pop
            /\ aborting' = TRUE
            /\ visited' = visited
       ELSE /\ visited' = (visited + 1) % 2
            /\ aborting' = aborting
            /\ LET value == is_terminal(Top.node, puzzle.player, puzzle.attacker)
               IN  IF Top.depth = max_depth
                   THEN /\ ret' = Some(undetermined)
                        /\ stack' = Pop
                   ELSE IF value # None
                   THEN /\ ret' = Some(Top.is_maximising_player *
                                       (IF value.value THEN 1 ELSE 0 - 1))
                        /\ stack' = Pop
                   ELSE /\ ret' = ret
                        /\ stack' = ReplaceTop([Top EXCEPT
                                         !.stage = "loop",
                                         !.remaining = legal_moves(Top.node)])
    /\ UNCHANGED <<fnVars, genVars, gameVars, termVars, controller, deadline, max_depth, parents,
                   parents_before, pc, result, answer, pnVars>>

\* The top of a negamax call: the abort check, visit_node, the terminal test,
\* the depth cut-off, and the creation of the iterator of the ranker.
Enter ==
    /\ pc = "negamax"
    /\ stack # <<>>
    /\ Top.stage = "enter"
    /\ IF should_abort
       THEN /\ ret' = abort_value
            /\ stack' = Pop
            /\ aborting' = TRUE
            /\ visited' = visited
       ELSE /\ visited' = (visited + 1) % 2
            /\ aborting' = aborting
            /\ LET value == is_terminal(Top.node, puzzle.player, puzzle.attacker)
               IN  IF value # None
                   THEN /\ ret' = Some(Top.is_maximising_player *
                                       (IF value.value THEN 1 ELSE 0 - 1))
                        /\ stack' = Pop
                   ELSE IF Top.depth = max_depth
                   THEN /\ ret' = Some(undetermined)
                        /\ stack' = Pop
                   ELSE /\ ret' = ret
                        /\ stack' = ReplaceTop([Top EXCEPT
                                         !.stage = "loop",
                                         !.remaining = legal_moves(Top.node)])
    /\ UNCHANGED <<fnVars, genVars, gameVars, termVars, controller, deadline, max_depth, parents,
                   parents_before, pc, result, answer, pnVars>>

\* One turn of the for loop: the ranker yields its next successor, in any
\* order; a successor on the current path is skipped, any other one is
\* inserted into parents and searched. When the ranker is exhausted the call
\* returns m.
NextChild ==
    /\ pc = "negamax"
    /\ stack # <<>>
    /\ Top.stage = "loop"
    /\ IF Top.remaining = {}
       THEN /\ ret' = Some(Top.m)
            /\ stack' = Pop
            /\ parents' = parents
       ELSE \E go_move \in Top.remaining :
              LET child == play_move(Top.node, go_move).game
                  rest == Top.remaining \ {go_move}
              IN  IF child \in parents
                  THEN /\ stack' = ReplaceTop([Top EXCEPT !.remaining = rest])
                       /\ parents' = parents
                       /\ ret' = ret
                  ELSE /\ parents' = parents \cup {child}
                       /\ stack' = Append(
                              ReplaceTop([Top EXCEPT !.remaining = rest,
                                                     !.stage = "wait",
                                                     !.child = child]),
                              Frame(child, 0 - Top.beta, 0 - Top.alpha,
                                    Top.depth + 1, 0 - Top.is_maximising_player))
                       /\ ret' = ret
    /\ UNCHANGED <<fnVars, genVars, gameVars, termVars, controller, deadline, max_depth,
                   parents_before, pc, result, answer, visited, aborting, pnVars>>

\* Mutant: a recursive call that returns None is taken for a skipped
\* successor, and the loop goes on.
Return_goes_on_after_None ==
    /\ pc = "negamax"
    /\ stack # <<>>
    /\ Top.stage = "wait"
    /\ ret # Unset
    /\ IF ret = None
       THEN /\ ret' = Unset
            /\ stack' = ReplaceTop([Top EXCEPT !.stage = "loop"])
            /\ parents' = parents \ {Top.child}
       ELSE LET t == 0 - ret.value
                m == Max(Top.m, t)
            IN  /\ parents' = parents \ {Top.child}
                /\ IF cut_off(m, Top.beta)
                   THEN /\ ret' = Some(m)
                        /\ stack' = Pop
                   ELSE /\ ret' = Unset
                        /\ stack' = ReplaceTop([Top EXCEPT
                                         !.m = m,
                                         !.alpha = Max(Top.alpha, m),
                                         !.stage = "loop"])
    /\ UNCHANGED <<fnVars, genVars, gameVars, termVars, controller, deadline, max_depth,
                   parents_before, pc, result, answer, visited, aborting, pnVars>>

\* Mutant: the Game stays in parents.
parents_keep(node) == parents

\* self.session.parents.remove(&child)
parents_remove(node) == parents \ {node}

\* The recursive call comes back: None leaves the caller at once (the ?
\* operator); a score is negated, the child leaves parents, m and alpha are
\* raised, and m >= beta ends the loop.
Return ==
    /\ pc = "negamax"
    /\ stack # <<>>
    /\ Top.stage = "wait"
    /\ ret # Unset
    /\ IF ret = None
       THEN /\ ret' = None
            /\ stack' = Pop
            /\ parents' = parents
       ELSE LET t == 0 - ret.value
                m == Max(Top.m, t)
            IN  /\ parents' = parents_remove(Top.child)
                /\ IF cut_off(m, Top.beta)
                   THEN /\ ret' = Some(m)
                        /\ stack' = Pop
                   ELSE /\ ret' = Unset
                        /\ stack' = ReplaceTop([Top EXCEPT
                                         !.m = m,
                                         !.alpha = Max(Top.alpha, m),
                                         !.stage = "loop"])
    /\ UNCHANGED <<fnVars, genVars, gameVars, termVars, controller, deadline, max_depth,
                   parents_before, pc, result, answer, visited, aborting, pnVars>>

\* solve: negamax has returned; the root leaves parents.
SolveEnd ==
    /\ pc = "negamax"
    /\ stack = <<>>
    /\ ret # Unset
    /\ parents' = parents_remove(puzzle.game)
    /\ result' = ret
    /\ ret' = Unset
    /\ pc' = "returned"
    /\ UNCHANGED <<fnVars, genVars, gameVars, termVars, controller, deadline, max_depth, stack,
                   parents_before, answer, visited, aborting, pnVars>>

\* Iterative deepening: an undetermined iteration is followed by one with
\* max_depth + 1.
Deepen ==
    /\ pc = "returned"
    /\ result = Some(0)
    /\ max_depth < MaxDepth
    /\ max_depth' = max_depth + 1
    /\ pc' = "ready"
    /\ UNCHANGED <<fnVars, genVars, gameVars, termVars, controller, deadline, stack, parents,
                   parents_before, ret, result, answer, visited, aborting, pnVars>>

\* Iterative deepening: None on abort, Some(Solution{won}) on a root value
\* of +1 or -1.
Finish ==
    /\ pc = "returned"
    /\ ~(result = Some(0) /\ max_depth < MaxDepth)
    /\ answer' = IF result = None THEN None
                 ELSE IF result = Some(0) THEN DepthCap
                 ELSE Some(result.value > 0)
    /\ pc' = "done"
    /\ UNCHANGED <<fnVars, genVars, gameVars, termVars, controller, deadline, max_depth, stack,
                   parents, parents_before, ret, result, visited, aborting, pnVars>>

SolveNext ==
    \/ DeadlinePasses
    \/ SolveBegin
    \/ Enter
    \/ NextChild
    \/ Return
    \/ SolveEnd
    \/ Deepen
    \/ Finish

SolveSpec == SolveInit /\ [][SolveNext]_vars

\* ------------------------------------------------------------------------
\* C1: every Game reached from a board without dead groups by successful
\* play_move calls has a board without dead groups.
\* ------------------------------------------------------------------------
C1_NoDeadGroups == ~has_dead_groups(game.board)

\* A placement has just captured stones.
C1_Witness ==
    /\ last.kind = "place"
    /\ last.captured > 0
    /\ ~has_dead_groups(game.board)

\* ------------------------------------------------------------------------
\* C2 (as claimed): ko_violations holds at most one position, and every
\* position in it is an empty cell of the board.
\* ------------------------------------------------------------------------
C2_KoAtMostOneAndEmpty ==
    /\ count(game.ko_violations) <= 1
    /\ \A position \in game.ko_violations :
           get_cell(game.board, position) = "Empty"

\* ------------------------------------------------------------------------
\* C2 (amended): every position in ko_violations is an empty cell of the
\* board, and at most one of them is a placement that is rejected with Ko:
\* a placement on any other position of ko_violations is Suicidal.
\* ------------------------------------------------------------------------
C2_KoEmptyAndOneForbidden ==
    /\ \A position \in game.ko_violations :
           get_cell(game.board, position) = "Empty"
    /\ count({position \in game.ko_violations :
                  place_stone(game, position) = Err("Ko")}) <= 1
    /\ \A position \in game.ko_violations :
           place_stone(game, position).tag = "Err"

\* One isolated stone has captured two single stones: ko_violations holds both.
C2_Witness ==
    /\ last.kind = "place"
    /\ count(game.ko_violations) >= 2
    /\ \A position \in game.ko_violations :
           get_cell(game.board, position) = "Empty"

\* ------------------------------------------------------------------------
\* C3: a stone returned by unconditionally_alive_blocks_for_player(X) stays
\* on the board for as long as X places no stone, whatever the opponent plays.
\* ------------------------------------------------------------------------
C3_BensonStonesStay ==
    \A x \in GoPlayer : safe[x] \subseteq get_bitboard_for_player(game.board, x)

\* The opponent of X has just placed a stone, X holds stones that Benson's
\* test returned before that placement, and the opponent has two stones.
C3_Witness ==
    /\ last.kind = "place"
    /\ safe[game.current_player] # {}
    /\ safe[game.current_player] \subseteq
           get_bitboard_for_player(game.board, game.current_player)
    /\ count(get_bitboard_for_player(game.board, flip(game.current_player))) >= 2

\* ------------------------------------------------------------------------
\* C4: whatever the order in which the ranker yields the successors of each
\* node, a solve that returns a score returns the root value of the search
\* that takes the successors in the order of generate_moves.
\* ------------------------------------------------------------------------
C4_RootValueAnyOrder ==
    (pc = "returned" /\ result # None) =>
        result = Some(solve(puzzle, max_depth))

\* A solve to depth two or more has returned a decided root value for a
\* puzzle whose root has several successors.
C4_Witness ==
    /\ pc = "returned"
    /\ max_depth >= 2
    /\ result \in {Some(1), Some(0 - 1)}
    /\ result = Some(solve(puzzle, max_depth))
    /\ Len(generate_moves(puzzle.game).moves) >= 3

\* ------------------------------------------------------------------------
\* C5: the run with the deadline controller ends with None or with the answer
\* of the run without a time limit, and the run with the never-abort
\* controller ends with that answer.
\* ------------------------------------------------------------------------
C5_DeadlineSameWon ==
    pc = "done" =>
        IF controller = "Timeout"
        THEN answer \in {None, solve_iteratively(puzzle, 1)}
        ELSE answer = solve_iteratively(puzzle, 1)

\* The deadline passed during a run that still ended with a solution.
C5_Witness ==
    /\ pc = "done"
    /\ controller = "Timeout"
    /\ deadline
    /\ answer \in {Some(TRUE), Some(FALSE)}
    /\ answer = solve_iteratively(puzzle, 1)

\* ------------------------------------------------------------------------
\* C6: once a negamax call has seen should_abort() return true, every call
\* in progress returns None, one per step, no node is visited, no successor
\* is inserted or searched, and solve returns None.
\* ------------------------------------------------------------------------
C6_AbortUnwinds ==
    /\ [](aborting /\ pc = "negamax" => ret = None)
    /\ [](aborting /\ pc # "negamax" => result = None)
    /\ [][aborting =>
             /\ visited' = visited
             /\ parents' \subseteq parents
             /\ \/ Len(stack') < Len(stack)
                \/ stack = <<>> /\ stack' = <<>>]_vars

\* A call two levels below the root has aborted; its callers are still in
\* progress.
C6_Witness ==
    /\ aborting
    /\ pc = "negamax"
    /\ ret = None
    /\ Len(stack) >= 2

\* ------------------------------------------------------------------------
\* C7 (as claimed): after a solve that returned None, parents is what it was
\* when the solve started.
\* ------------------------------------------------------------------------
C7_ParentsRestored ==
    (pc = "returned" /\ result = None) => parents = parents_before

\* An aborted solve has returned and has left a successor in parents.
C7_Witness ==
    /\ pc = "returned"
    /\ result = None
    /\ aborting
    /\ parents # parents_before
    /\ puzzle.game \notin parents

\* ------------------------------------------------------------------------
\* Vocabulary of the claims about the terminal oracle, stated on coordinates
\* ------------------------------------------------------------------------

Adjacent(p, q) ==
    \/ Row(p) = Row(q) /\ (Col(p) - Col(q) = 1 \/ Col(q) - Col(p) = 1)
    \/ Col(p) = Col(q) /\ (Row(p) - Row(q) = 1 \/ Row(q) - Row(p) = 1)

StonesOf(board, player) == {p \in Cells : get_cell(board, p) = player}

OutOfBoundsOf(board) == {p \in Cells : get_cell(board, p) = "OutOfBounds"}

\* The cells of S joined to a cell of seeds through 4-adjacent cells of S.
RECURSIVE ConnectedTo(_, _, _)
ConnectedTo(seeds, S, n) ==
    IF n = 0 THEN seeds \cap S
    ELSE LET r == ConnectedTo(seeds, S, n - 1)
         IN  r \cup {q \in S : \E p \in r : Adjacent(p, q)}

\* The in-bounds cells not covered by attacker stones connected to an attacker
\* stone that is 4-adjacent to an out-of-bounds cell.
MaximumLivingShape(board, attacker) ==
    LET oob == OutOfBoundsOf(board)
        stones == StonesOf(board, attacker)
        touching == {p \in stones : \E q \in oob : Adjacent(p, q)}
    IN  (Cells \ oob) \ ConnectedTo(touching, stones, Cardinality(Cells))

\* The cells of shape all of whose neighbours on the grid are in shape.
InteriorOf(shape) ==
    {p \in shape : \A q \in Cells : Adjacent(p, q) => q \in shape}

TwoNonAdjacent(cells) ==
    \E p \in cells, q \in cells : p # q /\ ~Adjacent(p, q)

Defender == flip(puzzle.attacker)

DefenderHasStones == StonesOf(puzzle.game.board, Defender) # {}

DefenderHasAliveStones ==
    unconditionally_alive_blocks_for_player(puzzle.game.board, Defender) # {}

Evaluated == verdict # Unset

\* ------------------------------------------------------------------------
\* C8 (as claimed): with pass_state = PassedTwice, is_terminal returns
\* Some(true) exactly when the defender has a stone, Some(false) otherwise.
\* ------------------------------------------------------------------------
C8_DoublePassDefenderStones ==
    (Evaluated /\ puzzle.game.pass_state = "PassedTwice")
        => verdict = Some(DefenderHasStones)

\* ------------------------------------------------------------------------
\* C8 (amended): with pass_state = PassedTwice, is_terminal returns Some(true)
\* exactly when the player is the defender and the defender has a stone, or
\* the player is the attacker and the defender has none; Some(false) otherwise.
\* ------------------------------------------------------------------------
C8_DoublePassTruthTable ==
    (Evaluated /\ puzzle.game.pass_state = "PassedTwice")
        => verdict = Some(\/ puzzle.player = Defender /\ DefenderHasStones
                          \/ puzzle.player = puzzle.attacker /\ ~DefenderHasStones)

\* The player is the attacker, the defender has stones, the game ended by two
\* passes: the oracle lets the player lose.
C8_Witness ==
    /\ Evaluated
    /\ puzzle.game.pass_state = "PassedTwice"
    /\ puzzle.player = puzzle.attacker
    /\ DefenderHasStones
    /\ verdict = Some(FALSE)

\* ------------------------------------------------------------------------
\* C9 (as claimed): without a double pass and without unconditionally alive
\* defender stones, is_terminal returns Some(player == attacker) exactly when
\* the interior of the maximum living shape has no two non-adjacent cells,
\* and None otherwise.
\* ------------------------------------------------------------------------
C9_DeadShapeTwoNonAdjacent ==
    (Evaluated /\ puzzle.game.pass_state # "PassedTwice" /\ ~DefenderHasAliveStones)
        => verdict =
             IF ~TwoNonAdjacent(InteriorOf(
                     MaximumLivingShape(puzzle.game.board, puzzle.attacker)))
             THEN Some(puzzle.player = puzzle.attacker)
             ELSE None

\* ------------------------------------------------------------------------
\* C9 (as the code decides): without a double pass and without
\* unconditionally alive defender stones, is_terminal returns
\* Some(player == attacker) exactly when the interior of the maximum living
\* shape has fewer than 2 cells, and None otherwise.
\* ------------------------------------------------------------------------
C9_DeadShapeFewerThanTwo ==
    (Evaluated /\ puzzle.game.pass_state # "PassedTwice" /\ ~DefenderHasAliveStones)
        => verdict =
             IF Cardinality(InteriorOf(
                    MaximumLivingShape(puzzle.game.board, puzzle.attacker))) < 2
             THEN Some(puzzle.player = puzzle.attacker)
             ELSE None

\* The interior of the maximum living shape is two 4-adjacent cells, neither
\* of the first two rules applies, and the oracle returns None.
C9_Witness ==
    /\ Evaluated
    /\ puzzle.game.pass_state # "PassedTwice"
    /\ ~DefenderHasAliveStones
    /\ Cardinality(InteriorOf(
           MaximumLivingShape(puzzle.game.board, puzzle.attacker))) = 2
    /\ ~TwoNonAdjacent(InteriorOf(
           MaximumLivingShape(puzzle.game.board, puzzle.attacker)))
    /\ verdict = None

\* ------------------------------------------------------------------------
\* C10: the terminal rules apply in priority order: two passes decide alone;
\* otherwise an unconditionally alive defender stone gives
\* Some(player == defender) even when the dead-shape test holds; the
\* dead-shape rule decides only when neither applies.
\* ------------------------------------------------------------------------
C10_RulePriority ==
    Evaluated =>
        /\ puzzle.game.pass_state = "PassedTwice"
             => verdict = Some((puzzle.player = puzzle.attacker) # DefenderHasStones)
        /\ (puzzle.game.pass_state # "PassedTwice" /\ DefenderHasAliveStones)
             => verdict = Some(puzzle.player = Defender)
        /\ (puzzle.game.pass_state # "PassedTwice" /\ ~DefenderHasAliveStones)
             => verdict = IF is_defender_dead(puzzle.game.board, puzzle.attacker)
                          THEN Some(puzzle.player = puzzle.attacker)
                          ELSE None

\* Benson's rule and the dead-shape rule both apply and disagree: the oracle
\* follows Benson's rule.
C10_Witness ==
    /\ Evaluated
    /\ puzzle.game.pass_state # "PassedTwice"
    /\ DefenderHasAliveStones
    /\ is_defender_dead(puzzle.game.board, puzzle.attacker)
    /\ verdict = Some(puzzle.player = Defender)
    /\ verdict # Some(puzzle.player = puzzle.attacker)

\* ------------------------------------------------------------------------
\* Vocabulary of the claims about the calls on a Game
\* ------------------------------------------------------------------------

Placed == last.kind = "place"

Passed == last.kind = "pass"

\* The last call was play_move(Move::Place(..)), whatever it returned.
TriedToPlace == last.kind \in {"place", "fail"} /\ last.move.kind = "Place"

\* ------------------------------------------------------------------------
\* C11 (as claimed): on a Game with pass_state = PassedTwice no placement
\* returns Ok, and generate_moves returns no successor.
\* ------------------------------------------------------------------------
C11_NoMoveAfterTwoPasses ==
    last.before.pass_state = "PassedTwice" =>
        /\ ~Placed
        /\ last.kind = "generate" => last.outcome = Vec(<<>>)

\* A stone has been placed on a Game that two passes had finished.
C11_Witness ==
    /\ Placed
    /\ last.before.pass_state = "PassedTwice"
    /\ last.outcome = Ok(game)
    /\ game.pass_state = "NoPass"

\* ------------------------------------------------------------------------
\* C12 (as claimed): play_move(Place(pos)) on an out-of-bounds cell returns
\* the error OutOfBounds.
\* ------------------------------------------------------------------------
C12_OutOfBoundsError ==
    (TriedToPlace /\ last.move.position \in OutOfBoundsOf(last.before.board))
        => last.outcome = Err("OutOfBounds")

\* A placement on an out-of-bounds cell has been rejected as Occupied.
C12_Witness ==
    /\ TriedToPlace
    /\ last.move.position \in OutOfBoundsOf(last.before.board)
    /\ last.outcome = Err("Occupied")

\* The maximal same-coloured group of the stone on pos.
GroupAt(board, pos) ==
    ConnectedTo({pos}, StonesOf(board, get_cell(board, pos)), Cardinality(Cells))

\* The cells 4-adjacent to a cell of group.
Around(group) == {q \in Cells : \E p \in group : Adjacent(p, q)}

\* The empty in-bounds cells 4-adjacent to group.
InBoundsLiberties(board, group) ==
    {q \in Around(group) : get_cell(board, q) = "Empty"}

\* ------------------------------------------------------------------------
\* C13 (as claimed): group_has_liberties(pos) is true exactly when an empty
\* in-bounds cell is 4-adjacent to the group of pos, and the group of a stone
\* that has just been placed has such a cell.
\* ------------------------------------------------------------------------
C13_LibertiesAreInBounds ==
    /\ \A pos \in Cells :
           get_cell(game.board, pos) \in GoPlayer =>
               (group_has_liberties(game.board, pos)
                   <=> InBoundsLiberties(game.board, GroupAt(game.board, pos)) # {})
    /\ Placed =>
           InBoundsLiberties(game.board,
                             GroupAt(game.board, last.move.position)) # {}

\* A stone has been placed whose group touches opposing stones, grid edges
\* and out-of-bounds cells only.
C13_Witness ==
    /\ Placed
    /\ last.outcome = Ok(game)
    /\ InBoundsLiberties(game.board, GroupAt(game.board, last.move.position)) = {}
    /\ Around(GroupAt(game.board, last.move.position))
           \cap OutOfBoundsOf(game.board) # {}
    /\ group_has_liberties(game.board, last.move.position)


\* ------------------------------------------------------------------------
\* C14: remove_dead_groups_for_player(color) keeps exactly the stones of
\* that colour joined through stones of that colour to a stone 4-adjacent
\* to a cell of empty_cells() (a cell that holds no stone: free or out of
\* bounds); every other group of the colour goes as a whole, and the other
\* colour's stones and the out-of-bounds cells are untouched.  Stated for
\* the function on every board a Game of the play holds, both colours, and
\* for the board a successful placement returns.
NoStoneOn(board) == {p \in Cells : get_cell(board, p) \in {"Empty", "OutOfBounds"}}

KeptStones(board, color) == ConnectedTo({p \in StonesOf(board, color) : \E q \in NoStoneOn(board) : Adjacent(p, q)}, StonesOf(board, color), Cardinality(Cells))

RemovesDeadGroups(board, color, after) ==
    /\ StonesOf(after, color) = KeptStones(board, color)
    /\ \A p \in StonesOf(board, color) :
           GroupAt(board, p) \subseteq StonesOf(after, color) \/ GroupAt(board, p) \cap StonesOf(after, color) = {}
    /\ StonesOf(after, flip(color)) = StonesOf(board, flip(color))
    /\ OutOfBoundsOf(after) = OutOfBoundsOf(board)

WithStone(board, pos, color) == [white |-> IF color = "White" THEN board.white \cup {pos} ELSE board.white, black |-> IF color = "Black" THEN board.black \cup {pos} ELSE board.black]

C14_DeadGroupsRemovedWhole ==
    /\ ~Probed => \A color \in GoPlayer : RemovesDeadGroups(game.board, color, remove_dead_groups_for_player(game.board, color))
    /\ Placed => RemovesDeadGroups(WithStone(last.before.board, last.move.position, last.before.current_player), flip(last.before.current_player), game.board)

\* A placement took a group of two stones or more off the board and left
\* another stone of the same colour on it.
C14_Witness ==
    /\ Placed /\ last.outcome = Ok(game)
    /\ \E p, q \in last.taken : Adjacent(p, q)
    /\ StonesOf(game.board, game.current_player) # {}
    /\ StonesOf(game.board, game.current_player) = KeptStones(WithStone(last.before.board, last.move.position, last.before.current_player), game.current_player)


\* ------------------------------------------------------------------------
\* C15 (as claimed): capturing has precedence over suicide.  A placement
\* on a free in-bounds cell that leaves a 4-adjacent opposing group with
\* no liberty (no free in-bounds cell next to it) is never rejected as
\* Suicidal.
LeftWithoutLiberties(board, pos, color) == {q \in StonesOf(board, flip(color)) : Adjacent(pos, q) /\ InBoundsLiberties(WithStone(board, pos, color), GroupAt(board, q)) = {}}

C15_CaptureBeforeSuicide ==
    (/\ TriedToPlace
     /\ get_cell(last.before.board, last.move.position) = "Empty"
     /\ LeftWithoutLiberties(last.before.board, last.move.position, last.before.current_player) # {})
    => last.outcome # Err("Suicidal")

\* A placement next to an opposing group whose only neighbours without a
\* stone are out of bounds was rejected as Suicidal.
C15_Witness ==
    /\ TriedToPlace /\ last.kind = "fail" /\ game = last.before
    /\ get_cell(game.board, last.move.position) = "Empty"
    /\ \E q \in LeftWithoutLiberties(game.board, last.move.position, game.current_player) : Around(GroupAt(game.board, q)) \cap OutOfBoundsOf(game.board) # {}
    /\ last.outcome = Err("Suicidal")

\* With a liberty counted as group_has_liberties counts it (any neighbour
\* without a stone, out of bounds included), the precedence holds.
C15_CaptureBeforeSuicideOfTheCode ==
    (/\ TriedToPlace
     /\ get_cell(last.before.board, last.move.position) = "Empty"
     /\ \E q \in StonesOf(last.before.board, flip(last.before.current_player)) :
            /\ Adjacent(last.move.position, q)
            /\ Around(GroupAt(last.before.board, q)) \cap NoStoneOn(WithStone(last.before.board, last.move.position, last.before.current_player)) = {})
    => last.outcome # Err("Suicidal")


\* ------------------------------------------------------------------------
\* C16: play_move(Place(pos)) with pos in the receiver's ko_violations
\* never returns Ok: it returns Ko unless it was rejected before that test
\* as Occupied or Suicidal.  In particular, when the receiver was returned
\* by a placement of an isolated stone (no stone of its colour next to it)
\* that took exactly one stone, a placement on the point of that stone is
\* rejected.
IsolatedStone(board, pos) == \A q \in Cells : Adjacent(pos, q) => get_cell(board, q) # get_cell(board, pos)

TookOneStoneAlone ==
    /\ last.prior.kind = "place"
    /\ Cardinality(last.prior.taken) = 1
    /\ IsolatedStone(last.before.board, last.prior.move.position)

C16_KoNeverSucceeds ==
    /\ (TriedToPlace /\ last.move.position \in last.before.ko_violations)
           => /\ last.kind = "fail"
              /\ last.outcome \in {Err("Ko"), Err("Occupied"), Err("Suicidal")}
              /\ game = last.before
    /\ (TriedToPlace /\ TookOneStoneAlone /\ last.move.position \in last.prior.taken)
           => last.kind = "fail" /\ last.outcome.tag = "Err"

\* The retake of a single stone that an isolated stone has just captured
\* was rejected with Ko.
C16_Witness ==
    /\ TriedToPlace /\ TookOneStoneAlone
    /\ last.prior.taken = {last.move.position}
    /\ last.move.position \in last.before.ko_violations
    /\ last.kind = "fail" /\ last.outcome = Err("Ko")
    /\ game = last.before


\* ------------------------------------------------------------------------
\* C17: the Game a successful placement returns has empty ko_violations
\* whenever the placed stone is 4-adjacent to a stone of its colour on the
\* board before the move, or the move took no stone, or every stone it
\* took has a taken 4-neighbour; a placement into such a space is then not
\* rejected with Ko.
JoinsFriend == \E q \in StonesOf(last.before.board, last.before.current_player) : Adjacent(last.move.position, q)

TookOnlyLargerGroups == \A p \in last.taken : \E q \in last.taken : Adjacent(p, q)

C17_NoKoAfterJoinOrGroupCapture ==
    /\ (Placed /\ (JoinsFriend \/ last.taken = {} \/ TookOnlyLargerGroups)) => game.ko_violations = {}
    /\ (TriedToPlace /\ last.prior.kind = "place" /\ last.move.position \in last.prior.taken /\ last.before.ko_violations = {})
           => last.outcome # Err("Ko")

\* A placement took stones, either joining a friendly stone or taking only
\* groups of two stones or more, and ko_violations is empty after it.
C17_Witness ==
    /\ Placed /\ last.outcome = Ok(game)
    /\ last.taken # {}
    /\ JoinsFriend \/ TookOnlyLargerGroups
    /\ game.ko_violations = {}



\* ------------------------------------------------------------------------
\* C18: every play_move that returns Ok, placement or pass, returns a Game
\* whose current_player is the other player than the receiver's; a
\* play_move that fails returns no Game and the receiver is as it was.
C18_PlayerAdvances ==
    /\ (Placed \/ Passed) => /\ last.outcome = Ok(game)
                             /\ game.current_player \in GoPlayer
                             /\ game.current_player # last.before.current_player
    /\ last.kind = "fail" => /\ last.outcome.tag \in {"Err", "Panic"}
                             /\ last.outcome # Ok(game)
                             /\ game = last.before

\* White passed on the Game that a placement of Black returned, and it is
\* Black's turn again.
C18_Witness ==
    /\ Passed /\ last.prior.kind = "place"
    /\ last.outcome = Ok(game)
    /\ last.before.current_player = "White"
    /\ game.current_player = "Black"


\* ------------------------------------------------------------------------
\* C19: pass_state counts the consecutive passes.  A pass leaves the board
\* as it was, clears ko_violations and takes NoPass to PassedOnce and
\* PassedOnce to PassedTwice; a successful placement sets pass_state to
\* NoPass.  Hence a Game that a move returned has pass_state = PassedTwice
\* exactly when that move and the move before it were both passes.
C19_PassStateCountsPasses ==
    /\ Passed => /\ game.board = last.before.board
                 /\ game.ko_violations = {}
                 /\ \/ last.before.pass_state = "NoPass" /\ game.pass_state = "PassedOnce"
                    \/ last.before.pass_state = "PassedOnce" /\ game.pass_state = "PassedTwice"
    /\ Placed => game.pass_state = "NoPass"
    /\ ~Probed => (game.pass_state = "PassedTwice" <=> (Passed /\ last.prior.kind = "pass"))
    /\ ~Probed => (game.pass_state = "PassedOnce" <=> (Passed /\ last.prior.kind # "pass"))

\* The second of two passes in a row, on a board with stones of both
\* colours.
C19_Witness ==
    /\ Passed /\ last.prior.kind = "pass"
    /\ last.before.pass_state = "PassedOnce"
    /\ game.pass_state = "PassedTwice"
    /\ game.ko_violations = {}
    /\ game.board = last.before.board
    /\ StonesOf(game.board, "Black") # {} /\ StonesOf(game.board, "White") # {}

\* The first pass after a placement that left a ko point clears it.
C19_WitnessKoCleared ==
    /\ Passed /\ last.prior.kind = "place"
    /\ last.before.ko_violations # {}
    /\ game.ko_violations = {}
    /\ game.pass_state = "PassedOnce"


\* ------------------------------------------------------------------------
\* C20: for every Game that is not finished (pass_state # PassedTwice),
\* generate_moves returns exactly one pair with Move::Place(pos) for each
\* free in-bounds position where the placement succeeds, none for an
\* occupied or out-of-bounds cell, and exactly one pair with Move::Pass;
\* the Game of each pair is what play_move returns for the pair's move,
\* and the result has at least one element.
Generated == last.kind = "generate"

PairsWith(moves, go_move) == {i \in 1..Len(moves) : moves[i].move = go_move}

C20_GeneratedMoves ==
    (Generated /\ last.before.pass_state # "PassedTwice") =>
        /\ last.outcome.tag = "Vec"
        /\ game = last.before
        /\ LET moves == last.outcome.moves
           IN  /\ Len(moves) >= 1
               /\ Cardinality(PairsWith(moves, MovePass)) = 1
               /\ \A pos \in Cells :
                      Cardinality(PairsWith(moves, MovePlace(pos))) =
                          IF get_cell(game.board, pos) = "Empty" /\ play_move(game, MovePlace(pos)).tag = "Ok" THEN 1 ELSE 0
               /\ \A i \in 1..Len(moves) :
                      /\ moves[i].move \in {MovePass} \cup {MovePlace(pos) : pos \in Cells}
                      /\ play_move(game, moves[i].move) = Ok(moves[i].game)

\* generate_moves on an unfinished Game whose board has an out-of-bounds
\* cell, a stone, a free cell where the placement fails and a free cell
\* where it succeeds.
C20_Witness ==
    /\ Generated /\ last.before.pass_state # "PassedTwice"
    /\ last.outcome.tag = "Vec"
    /\ Len(last.outcome.moves) >= 2
    /\ OutOfBoundsOf(game.board) # {}
    /\ \E pos \in Cells : get_cell(game.board, pos) \in GoPlayer
    /\ \E pos \in Cells : get_cell(game.board, pos) = "Empty" /\ play_move(game, MovePlace(pos)).tag = "Err"


\* ------------------------------------------------------------------------
\* C22: along any sequence of play_move calls the out-of-bounds set of the
\* board stays the same: the Game a move returns has the out-of-bounds
\* cells of the Game it was played on (so, by induction, of the first
\* Game), and a failed call leaves the Game as it was; no cell is both a
\* black stone and a white stone, or a stone and out of bounds.
C22_OutOfBoundsNeverChanges ==
    /\ (Placed \/ Passed) =>
           /\ out_of_bounds(game.board) = out_of_bounds(last.before.board)
           /\ OutOfBoundsOf(game.board) = OutOfBoundsOf(last.before.board)
    /\ Probed => game = last.before
    /\ get_bitboard_for_player(game.board, "Black") \cap get_bitboard_for_player(game.board, "White") = {}
    /\ \A player \in GoPlayer : get_bitboard_for_player(game.board, player) \cap out_of_bounds(game.board) = {}
    /\ \A player \in GoPlayer : StonesOf(game.board, player) = get_bitboard_for_player(game.board, player)

\* A stone placed next to an out-of-bounds cell took stones off the board.
C22_Witness ==
    /\ Placed /\ last.outcome = Ok(game)
    /\ last.taken # {}
    /\ \E q \in OutOfBoundsOf(last.before.board) : Adjacent(last.move.position, q)
    /\ OutOfBoundsOf(game.board) = OutOfBoundsOf(last.before.board)

\* ------------------------------------------------------------------------
\* FnSpec: one call of a function of the library on arguments drawn from
\* bounded sets
\* ------------------------------------------------------------------------

\* The playable cells of a board given to a MoveRanker in the model.
MaxPlayable == 2

Returned(v) == [tag |-> "Returned", value |-> v]

\* The permutations of 1..n, as sequences.
Shuffles(n) == {[i \in 1..n |-> f[i]] : f \in Permutations(1..n)}

RankGames ==
    {[from_board(board, current_player) EXCEPT !.pass_state = pass_state] :
         board \in {b \in Boards : ~has_dead_groups(b) /\ Cardinality(playable_cells(b)) <= MaxPlayable},
         current_player \in GoPlayer, pass_state \in PassState}

\* The stones on a candidate of the model.
MaxCandidateStones == 3

\* The candidates of the model: boards shaped as the puzzles of SolveSpec,
\* with or without captured groups, that both solves settle by MaxDepth.
CandidateBoards ==
    {b \in Boards :
        /\ stone_count(b) <= MaxCandidateStones
        /\ \E k \in 1..height :
               OutOfBoundsCells(b) = {BoardPosition(0, r) : r \in 0..(k - 1)}
        /\ \A player \in GoPlayer :
               solve_iteratively(Puzzle_new(from_board(b, player)), 1) # DepthCap}

\* The calls of the model, one disjunct for each function.
FnCalls ==
    \/ \E g \in RankGames : \E shuffle \in Shuffles(Len(pushed_moves(g))) :
           invoked = [fn |-> "RandomMoveRanker", game |-> g, shuffle |-> shuffle]
    \/ \E g \in RankGames : invoked = [fn |-> "LinearMoveRanker", game |-> g]
    \/ \E board \in Boards, player \in GoPlayer :
           invoked = [fn |-> "unconditionally_alive_blocks_for_player", board |-> board, player |-> player]
    \/ \E seed \in SUBSET Cells, mask \in SUBSET Cells :
           invoked = [fn |-> "flood_fill", seed |-> seed, mask |-> mask]
    \/ \E x \in SUBSET Cells :
           invoked = [fn |-> "groups", x |-> x]
    \/ \E board \in Boards, current_player \in GoPlayer :
           invoked = [fn |-> "Puzzle_new", game |-> from_board(board, current_player)]
    \/ \E board \in CandidateBoards, timed_out \in [GoPlayer -> BOOLEAN] :
           invoked = [fn |-> "validate_candidate", candidate |-> board, timed_out |-> timed_out]

FnInit ==
    /\ GameIdle
    /\ TermIdle
    /\ SolveIdle
    /\ GenIdle
    /\ PnIdle
    /\ FnCalls
    /\ returned = Unset

\* RandomMoveRanker.order_moves(game), the iterator run to its end.
OrderMovesRandom ==
    /\ invoked.fn = "RandomMoveRanker" /\ returned = Unset
    /\ returned' = Returned(RandomMoveRanker_order_moves(invoked.game, invoked.shuffle))
    /\ UNCHANGED <<invoked, gameVars, termVars, solveVars, genVars, pnVars>>

\* LinearMoveRanker.order_moves(game), the iterator run to its end.
OrderMovesLinear ==
    /\ invoked.fn = "LinearMoveRanker" /\ returned = Unset
    /\ returned' = Returned(LinearMoveRanker_order_moves(invoked.game))
    /\ UNCHANGED <<invoked, gameVars, termVars, solveVars, genVars, pnVars>>

\* board.unconditionally_alive_blocks_for_player(player)
UnconditionallyAlive ==
    /\ invoked.fn = "unconditionally_alive_blocks_for_player" /\ returned = Unset
    /\ returned' = Returned(unconditionally_alive_blocks_for_player(invoked.board, invoked.player))
    /\ UNCHANGED <<invoked, gameVars, termVars, solveVars, genVars, pnVars>>

\* validate_candidate(candidate, timeout, ..)
ValidateCandidate ==
    /\ invoked.fn = "validate_candidate" /\ returned = Unset
    /\ returned' = Returned(validate_candidate(invoked.candidate, invoked.timed_out))
    /\ UNCHANGED <<invoked, gameVars, termVars, solveVars, genVars, pnVars>>

\* seed.flood_fill(mask)
FloodFill ==
    /\ invoked.fn = "flood_fill" /\ returned = Unset
    /\ returned' = Returned(flood_fill(invoked.seed, invoked.mask))
    /\ UNCHANGED <<invoked, gameVars, termVars, solveVars, genVars, pnVars>>

\* x.groups() collected
Groups ==
    /\ invoked.fn = "groups" /\ returned = Unset
    /\ returned' = Returned(Vec(groups(invoked.x)))
    /\ UNCHANGED <<invoked, gameVars, termVars, solveVars, genVars, pnVars>>

\* Puzzle::new(game)
NewPuzzle ==
    /\ invoked.fn = "Puzzle_new" /\ returned = Unset
    /\ returned' = Returned(Puzzle_new(invoked.game))
    /\ UNCHANGED <<invoked, gameVars, termVars, solveVars, genVars, pnVars>>

FnNext ==
    \/ FloodFill
    \/ Groups
    \/ NewPuzzle
    \/ ValidateCandidate
    \/ OrderMovesRandom
    \/ OrderMovesLinear
    \/ UnconditionallyAlive

FnSpec == FnInit /\ [][FnNext]_vars

\* ------------------------------------------------------------------------
\* C21: for every Game, the sequence RandomMoveRanker::order_moves yields,
\* and the one LinearMoveRanker yields, holds the same (Game, Move) pairs
\* as generate_moves, each exactly once; only the order may differ.  (On
\* a Game with pass_state = PassedTwice all three panic.)
Occurrences(moves, pair) == Cardinality({i \in 1..Len(moves) : moves[i] = pair})

SamePairs(ordered, generated) ==
    IF generated = Panic THEN ordered = Panic
    ELSE /\ ordered # Panic
         /\ ordered.tag = "Vec"
         /\ Len(ordered.moves) = Len(generated.moves)
         /\ \A i \in 1..Len(generated.moves) :
                /\ Occurrences(ordered.moves, generated.moves[i]) = 1
                /\ Occurrences(generated.moves, generated.moves[i]) = 1

C23_AliveBlocksAreWholeGroups ==
    (returned # Unset /\ invoked.fn = "unconditionally_alive_blocks_for_player") =>
        /\ returned.value \subseteq StonesOf(invoked.board, invoked.player)
        /\ \A p \in StonesOf(invoked.board, invoked.player) :
               \/ GroupAt(invoked.board, p) \subseteq returned.value
               \/ GroupAt(invoked.board, p) \cap returned.value = {}

\* A group of three stones or more is returned whole.
C23_Witness ==
    /\ returned # Unset /\ invoked.fn = "unconditionally_alive_blocks_for_player"
    /\ \E p \in returned.value :
           /\ Cardinality(GroupAt(invoked.board, p)) >= 3
           /\ GroupAt(invoked.board, p) \subseteq returned.value


\* ------------------------------------------------------------------------
\* C24: validate_candidate returns Some(white_solution, black_solution)
\* exactly when the candidate has no captured group and the solve with
\* White to move and the solve with Black to move both end before the
\* timeout with won = true; in every other case it returns None.
NoCapturedGroups(board) == \A color \in GoPlayer : KeptStones(board, color) = StonesOf(board, color)

SolvedFor(board, player) == solve_iteratively(Puzzle_new(from_board(board, player)), 1)

BothWon(board, timed_out) ==
    /\ NoCapturedGroups(board)
    /\ \A player \in GoPlayer : ~timed_out[player] /\ SolvedFor(board, player) = Some(TRUE)

C24_ValidatedExactlyWhenBothWon ==
    (returned # Unset /\ invoked.fn = "validate_candidate") =>
        IF BothWon(invoked.candidate, invoked.timed_out)
        THEN returned.value = Some(<<[won |-> TRUE], [won |-> TRUE]>>)
        ELSE returned.value = None

\* A candidate is accepted: both players win when they move first.
C24_Witness ==
    /\ returned # Unset /\ invoked.fn = "validate_candidate"
    /\ returned.value # None
    /\ stone_count(invoked.candidate) >= 1

\* A candidate without captured groups is rejected with no timeout: a
\* player does not win moving first.
C24_WitnessLost ==
    /\ returned # Unset /\ invoked.fn = "validate_candidate"
    /\ returned.value = None
    /\ NoCapturedGroups(invoked.candidate)
    /\ \A player \in GoPlayer : ~invoked.timed_out[player]

\* A candidate with a captured group is rejected.
C24_WitnessCaptured ==
    /\ returned # Unset /\ invoked.fn = "validate_candidate"
    /\ returned.value = None
    /\ ~NoCapturedGroups(invoked.candidate)


\* ------------------------------------------------------------------------
\* C28: flood_fill(seed, mask) is the least fixed point of
\* x -> expand_one(x) /\ mask that holds seed /\ mask: the union of the
\* 4-connected components of mask with a seed cell; it lies in mask and
\* filling again from the result gives the result.
GrownInside(x, mask) == {q \in mask : q \in x \/ \E p \in x : Adjacent(p, q)}

FixedPointsFrom(seed, mask) ==
    {y \in SUBSET mask : (seed \cap mask) \subseteq y /\ GrownInside(y, mask) = y}

C28_FloodFillIsLeastFixedPoint ==
    (returned # Unset /\ invoked.fn = "flood_fill") =>
        LET seed == invoked.seed
            mask == invoked.mask
            filled == returned.value
        IN  /\ filled \subseteq mask
            /\ filled \in FixedPointsFrom(seed, mask)
            /\ expand_one(filled) \cap mask = filled
            /\ \A y \in FixedPointsFrom(seed, mask) : filled \subseteq y
            /\ filled = ConnectedTo(seed, mask, Cardinality(Cells))
            /\ flood_fill(filled, mask) = filled

\* A fill from a seed partly outside the mask that takes a component of
\* three cells or more and leaves another cell of the mask unfilled.
C28_Witness ==
    /\ returned # Unset /\ invoked.fn = "flood_fill"
    /\ ~(invoked.seed \subseteq invoked.mask)
    /\ Cardinality(invoked.seed \cap invoked.mask) = 1
    /\ Cardinality(returned.value) >= 3
    /\ returned.value # invoked.mask

\* ------------------------------------------------------------------------
\* C29: groups() yields every maximal 4-connected component of x exactly
\* once: the groups are non-empty, pairwise disjoint, their union is x, and
\* they come in increasing order of their first cell; the iteration ends.
LeastCell(x) == CHOOSE p \in x : \A q \in x : p <= q

ComponentOf(p, x) == ConnectedTo({p}, x, Cardinality(Cells))

C29_GroupsAreTheComponents ==
    (returned # Unset /\ invoked.fn = "groups") =>
        LET x == invoked.x
            yielded == returned.value.moves
        IN  /\ \A i \in 1..Len(yielded) :
                   /\ yielded[i] # {}
                   /\ yielded[i] = ComponentOf(LeastCell(yielded[i]), x)
            /\ \A i, j \in 1..Len(yielded) :
                   i # j => yielded[i] \cap yielded[j] = {}
            /\ UNION {yielded[i] : i \in 1..Len(yielded)} = x
            /\ \A p \in x : \E i \in 1..Len(yielded) : yielded[i] = ComponentOf(p, x)
            /\ \A i \in 1..(Len(yielded) - 1) :
                   LeastCell(yielded[i]) < LeastCell(yielded[i + 1])
            /\ Len(yielded) <= Cardinality(x)

\* Two groups are yielded, the first of three cells or more.
C29_Witness ==
    /\ returned # Unset /\ invoked.fn = "groups"
    /\ Len(returned.value.moves) = 2
    /\ Cardinality(returned.value.moves[1]) >= 3

\* ------------------------------------------------------------------------
\* C30: Puzzle::new makes White the attacker exactly when a white stone is
\* 4-adjacent to an out-of-bounds cell, and Black otherwise (also when no
\* cell is out of bounds); player is the game's current player.
WhiteTouchesOutOfBounds(board) ==
    \E p \in StonesOf(board, "White") : \E q \in OutOfBoundsOf(board) : Adjacent(p, q)

C30_AttackerTouchesOutOfBounds ==
    (returned # Unset /\ invoked.fn = "Puzzle_new") =>
        /\ returned.value.attacker =
               IF WhiteTouchesOutOfBounds(invoked.game.board) THEN "White" ELSE "Black"
        /\ returned.value.player = invoked.game.current_player
        /\ returned.value.game = invoked.game

\* White attacks although a black stone touches out-of-bounds as well.
C30_Witness ==
    /\ returned # Unset /\ invoked.fn = "Puzzle_new"
    /\ returned.value.attacker = "White"
    /\ \E p \in StonesOf(invoked.game.board, "Black") :
           \E q \in OutOfBoundsOf(invoked.game.board) : Adjacent(p, q)

\* Black attacks on a board with white stones and no out-of-bounds cell.
C30_WitnessNoOutOfBounds ==
    /\ returned # Unset /\ invoked.fn = "Puzzle_new"
    /\ returned.value.attacker = "Black"
    /\ OutOfBoundsOf(invoked.game.board) = {}
    /\ StonesOf(invoked.game.board, "White") # {}


\* ------------------------------------------------------------------------
\* Generation: generate_playable_area runs step by step
\* ------------------------------------------------------------------------

\* The stones set up in an SGF of the model that was not written by to_sgf.
MaxSetupStones == 2

\* Either generate_candidate starts, or an SGF is about to be read.
GenInit ==
    /\ GameIdle /\ TermIdle /\ SolveIdle /\ FnIdle /\ PnIdle
    /\ \/ /\ \E starting_position \in GridCells :
                  playable_area = singleton(starting_position)
          /\ iterations \in MinIterations..MaxIterations
          /\ sgf = Unset
       \/ /\ playable_area = empty
          /\ iterations = 0
          /\ \E stones \in UpTo(GridCells, MaxSetupStones) :
               \E black \in SUBSET stones :
                 LET white == stones \ black IN
                 /\ \E i \in 1..grid_width, j \in 1..grid_height :
                        sgf = Sgf(add_tokens("Black", positions(black), 1)
                                  \o add_tokens("White", positions(white), 1)
                                  \o <<SgfTriangle(<<i, j>>)>>)
    /\ filled_area = Unset
    /\ candidate = Unset
    /\ parsed = Unset

\* One iteration of the loop: an edge of non-zero weight, then one of its
\* candidate cells.
Grow ==
    /\ filled_area = Unset
    /\ iterations > 0
    /\ \E edge \in BitBoardEdge :
           \E next_position \in candidate_next_positions(playable_area, edge) :
               playable_area' = set(playable_area, next_position)
    /\ iterations' = iterations - 1
    /\ UNCHANGED <<filled_area, candidate, sgf, parsed, gameVars, termVars, solveVars, fnVars, pnVars>>

\* The loop has ended: the holes are filled and the area is returned.
FillHoles ==
    /\ ~is_empty(playable_area)
    /\ filled_area = Unset
    /\ iterations = 0
    /\ filled_area' = Returned(fill_holes(playable_area))
    /\ UNCHANGED <<playable_area, iterations, candidate, sgf, parsed, gameVars, termVars, solveVars, fnVars, pnVars>>

\* The rest of generate_candidate: the boundary, the interior stones and
\* the attacker, who owns the boundary.
GenerateCandidate ==
    /\ filled_area # Unset
    /\ candidate = Unset
    /\ \E attacker \in GoPlayer :
           \E stones \in UpTo(filled_area.value, MaxInteriorStones) :
               \E black \in SUBSET stones :
                   candidate' = Returned(generate_candidate(filled_area.value, black, stones \ black, attacker))
    /\ UNCHANGED <<playable_area, iterations, filled_area, sgf, parsed, gameVars, termVars, solveVars, fnVars, pnVars>>

\* candidate.to_sgf()
ToSgf ==
    /\ candidate # Unset
    /\ sgf = Unset
    /\ sgf' = to_sgf(candidate.value)
    /\ UNCHANGED <<playable_area, iterations, filled_area, candidate, parsed, gameVars, termVars, solveVars, fnVars, pnVars>>

\* GoGame::from_sgf(sgf)
FromSgf ==
    /\ sgf # Unset
    /\ sgf # Panic
    /\ parsed = Unset
    /\ parsed' = Returned(from_sgf(sgf.tokens))
    /\ UNCHANGED <<playable_area, iterations, filled_area, candidate, sgf, gameVars, termVars, solveVars, fnVars, pnVars>>

GenNext ==
    \/ Grow
    \/ FillHoles
    \/ GenerateCandidate
    \/ ToSgf
    \/ FromSgf

GenSpec == GenInit /\ [][GenNext]_vars

\* ------------------------------------------------------------------------
\* C25: whatever the random choices, the area generate_playable_area
\* returns, after the holes are filled, does not touch both the top and the
\* bottom edge, nor both the left and the right edge.
TouchesRow(area, row) == \E p \in area : GridRow(p) = row
TouchesColumn(area, column) == \E p \in area : GridCol(p) = column

SpansTheGrid(area) ==
    \/ TouchesRow(area, 0) /\ TouchesRow(area, grid_height - 1)
    \/ TouchesColumn(area, 0) /\ TouchesColumn(area, grid_width - 1)

C25_AreaDoesNotSpanTheGrid ==
    filled_area # Unset => ~SpansTheGrid(filled_area.value)

\* The area grown by the loop never spans the grid: only the filling of the
\* holes makes the returned area span it.
C25_WalkDoesNotSpanTheGrid == ~SpansTheGrid(playable_area)

\* An area is returned that encloses a hole and has it filled.
C25_WitnessHoleFilled ==
    /\ filled_area # Unset
    /\ ~SpansTheGrid(filled_area.value)
    /\ filled_area.value # playable_area


\* The loop ends with an area that reaches two adjacent edges only, and the
\* area returned reaches all four: the larger side of the cut was taken for
\* the hole.
C25_Witness ==
    /\ filled_area # Unset
    /\ ~SpansTheGrid(playable_area)
    /\ TouchesRow(filled_area.value, 0)
    /\ TouchesRow(filled_area.value, grid_height - 1)
    /\ TouchesColumn(filled_area.value, 0)
    /\ TouchesColumn(filled_area.value, grid_width - 1)


\* ------------------------------------------------------------------------
\* C26: for every board B generate_candidate can produce, the board of
\* GoGame::from_sgf(B.to_sgf()) is B: the same black stones, white stones
\* and out-of-bounds cells.
GridStonesOf(board, player) ==
    {p \in GridCells : p \in board[IF player = "Black" THEN "black" ELSE "white"]
                       /\ p \notin board[IF player = "Black" THEN "white" ELSE "black"]}

GridOutOfBoundsOf(board) == {p \in GridCells : p \in board.white /\ p \in board.black}

SameBoard(a, b) ==
    /\ GridStonesOf(a, "Black") = GridStonesOf(b, "Black")
    /\ GridStonesOf(a, "White") = GridStonesOf(b, "White")
    /\ GridOutOfBoundsOf(a) = GridOutOfBoundsOf(b)

C26_SgfRoundTrip ==
    (candidate # Unset /\ parsed # Unset) =>
        SameBoard(parsed.value.board, candidate.value)

\* The stones always come back: only the out-of-bounds cells can differ.
C26_StonesRoundTrip ==
    (candidate # Unset /\ parsed # Unset) =>
        /\ GridStonesOf(parsed.value.board, "Black") = GridStonesOf(candidate.value, "Black")
        /\ GridStonesOf(parsed.value.board, "White") = GridStonesOf(candidate.value, "White")
        /\ GridOutOfBoundsOf(parsed.value.board) \subseteq GridOutOfBoundsOf(candidate.value)

\* The boundary of the candidate runs from an edge to the opposite edge and
\* leaves out-of-bounds cells on both sides: the SGF read back has those of
\* one side only.
C26_Witness ==
    /\ candidate # Unset /\ parsed # Unset
    /\ GridOutOfBoundsOf(parsed.value.board) # {}
    /\ GridOutOfBoundsOf(parsed.value.board) # GridOutOfBoundsOf(candidate.value)
    /\ GridStonesOf(candidate.value, "Black") # {}
    /\ GridStonesOf(candidate.value, "White") # {}

\* A candidate with stones of both colours that comes back as it was.
C26_WitnessSame ==
    /\ candidate # Unset /\ parsed # Unset
    /\ SameBoard(parsed.value.board, candidate.value)
    /\ GridStonesOf(candidate.value, "Black") # {}
    /\ GridStonesOf(candidate.value, "White") # {}


\* ------------------------------------------------------------------------
\* Vocabulary of the claims about reading an SGF, stated on coordinates
\* ------------------------------------------------------------------------

GridAdjacent(p, q) ==
    \/ GridRow(p) = GridRow(q) /\ (GridCol(p) - GridCol(q) = 1 \/ GridCol(q) - GridCol(p) = 1)
    \/ GridCol(p) = GridCol(q) /\ (GridRow(p) - GridRow(q) = 1 \/ GridRow(q) - GridRow(p) = 1)

GridNeighbours == [p \in GridCells |-> {q \in GridCells : GridAdjacent(p, q)}]

\* The cells of S joined to a cell of r through 4-adjacent cells of S.
RECURSIVE GridRegion(_, _)
GridRegion(r, S) ==
    LET next == (r \cap S) \cup (UNION {GridNeighbours[p] : p \in r \cap S} \cap S)
    IN  IF next = r THEN r ELSE GridRegion(next, S)

\* The cell a coordinate of an SGF token names.
CellAt(coordinate) == (coordinate[1] - 1) + grid_width * (coordinate[2] - 1)

SetupStones(tokens) == {CellAt(tokens[i].coordinate) : i \in {k \in 1..Len(tokens) : tokens[k].token = "Add"}}

TriangleCells(tokens) == {CellAt(tokens[i].coordinate) : i \in {k \in 1..Len(tokens) : tokens[k].token = "Triangle"}}

\* The connected region of setup-empty cells that holds the triangle cell.
TriangleRegion(tokens) == GridRegion(TriangleCells(tokens), GridCells \ SetupStones(tokens))

\* ------------------------------------------------------------------------
\* C27 (as claimed): when an SGF is read, the triangle marks a cell inside
\* the playable region, and the out-of-bounds set of the board is the
\* complement of the connected region of setup-empty cells that contains
\* the triangle cell.
C27_OutOfBoundsIsComplementOfRegion ==
    parsed # Unset =>
        /\ TriangleCells(sgf.tokens) \cap GridOutOfBoundsOf(parsed.value.board) = {}
        /\ GridOutOfBoundsOf(parsed.value.board) = GridCells \ TriangleRegion(sgf.tokens)

\* C27 (amended): when an SGF is read, the triangle marks an out-of-bounds
\* cell: the out-of-bounds set of the board is the connected region of
\* setup-empty cells that contains the triangle cell (no cell when the
\* triangle is on a stone); the stones are those of the setup.
C27_OutOfBoundsIsTheTriangleRegion ==
    parsed # Unset =>
        /\ GridOutOfBoundsOf(parsed.value.board) = TriangleRegion(sgf.tokens)
        /\ TriangleCells(sgf.tokens) \ SetupStones(sgf.tokens)
               \subseteq GridOutOfBoundsOf(parsed.value.board)
        /\ GridStonesOf(parsed.value.board, "Black") \cup GridStonesOf(parsed.value.board, "White")
               = SetupStones(sgf.tokens)
        /\ \A i \in 1..Len(sgf.tokens) :
               sgf.tokens[i].token = "Add" =>
                   CellAt(sgf.tokens[i].coordinate)
                       \in GridStonesOf(parsed.value.board, sgf.tokens[i].color)

\* An SGF that was not written by to_sgf is read: its stones close off the
\* corner of the triangle, which alone becomes out of bounds.
C27_Witness ==
    /\ parsed # Unset /\ candidate = Unset
    /\ GridOutOfBoundsOf(parsed.value.board) # {}
    /\ Cardinality(GridOutOfBoundsOf(parsed.value.board)) <= 2
    /\ GridStonesOf(parsed.value.board, "Black") # {}
    /\ GridStonesOf(parsed.value.board, "White") # {}

\* The triangle is on a stone: no cell is out of bounds.
C27_WitnessOnStone ==
    /\ parsed # Unset /\ candidate = Unset
    /\ TriangleCells(sgf.tokens) \subseteq SetupStones(sgf.tokens)
    /\ GridOutOfBoundsOf(parsed.value.board) = {}


\* ------------------------------------------------------------------------
\* The search without cut-offs: the same terminal oracle, 0 at a
\* non-terminal node of depth max_depth, the successors on the current path
\* skipped, -1 for a node none of whose successors is searched.
\* ------------------------------------------------------------------------

RECURSIVE FullSearch(_, _, _, _, _)
FullSearch(node, depth, sign, path, pz) ==
    LET value == is_terminal(node, pz.player, pz.attacker)
    IN  IF value # None THEN sign * (IF value.value THEN 1 ELSE 0 - 1)
        ELSE IF depth = pz.max_depth THEN 0
        ELSE LET searched == {play_move(node, go_move).game : go_move \in legal_moves(node)} \ path
                 scores == {0 - FullSearch(child, depth + 1, 0 - sign, path \cup {child}, pz) : child \in searched}
             IN  IF 1 \in scores THEN 1
                 ELSE IF 0 \in scores THEN 0
                 ELSE 0 - 1

FullSearchOf(pz, depth) ==
    FullSearch(pz.game, 0, 1, {pz.game},
               [player |-> pz.player, attacker |-> pz.attacker, max_depth |-> depth])

\* ------------------------------------------------------------------------
\* C31: for every position and max_depth, negamax started with the window
\* (-1, +1) returns the root value of the same search without alpha-beta
\* cut-offs.
C31_CutOffsKeepTheRootValue ==
    (pc = "returned" /\ result # None) =>
        result = Some(FullSearchOf(puzzle, max_depth))

\* A solve to depth two has returned -1 for a root with a successor that is
\* not terminal: the call on that successor ended its loop on m >= beta.
C31_Witness ==
    /\ pc = "returned"
    /\ max_depth >= 2
    /\ result # None
    /\ result = Some(FullSearchOf(puzzle, max_depth))
    /\ result.value = 0 - 1
    /\ \E go_move \in legal_moves(puzzle.game) :
           is_terminal(play_move(puzzle.game, go_move).game, puzzle.player, puzzle.attacker) = None


\* ------------------------------------------------------------------------
\* C32: a decided result is stable under deepening: when the iteration with
\* max_depth d returns +1 or -1 at the root, the iteration with every larger
\* max_depth returns the same value.
\* ------------------------------------------------------------------------

\* The deepest iteration the decided results are compared with.
MaxDeepening == 3

C32_DecidedResultIsStable ==
    (pc = "returned" /\ result \in {Some(1), Some(0 - 1)}) =>
        \A deeper \in (max_depth + 1)..MaxDeepening :
            solve(puzzle, deeper) = result.value

\* The first iteration has returned a decided value that the iterations of
\* depth two and three return as well, for a root with successors that are
\* not terminal.
C32_Witness ==
    /\ pc = "returned"
    /\ max_depth = 1
    /\ result \in {Some(1), Some(0 - 1)}
    /\ solve(puzzle, 2) = result.value
    /\ solve(puzzle, MaxDeepening) = result.value
    /\ \E go_move \in legal_moves(puzzle.game) :
           is_terminal(play_move(puzzle.game, go_move).game, puzzle.player, puzzle.attacker) = None


\* ------------------------------------------------------------------------
\* C33: during a solve that is not aborted, parents is at every negamax
\* entry the set of the Games on the path from the root to the node being
\* searched, of size depth + 1; no Game occurs twice on a searched path, so
\* a successor equal to a Game on the path is never searched; and when
\* solve returns, parents is what it was before the solve.
\* ------------------------------------------------------------------------

\* The Games of the negamax calls in progress, from the root to the top.
PathGames == {stack[i].node : i \in 1..Len(stack)}

C33_WitnessReturned ==
    /\ pc = "returned"
    /\ result = Some(0)
    /\ max_depth = 2
    /\ parents = parents_before


\* ------------------------------------------------------------------------
\* C34: the terminal test precedes the depth cut-off: a node for which
\* is_terminal returns Some is scored +1 or -1 for the side to move, also at
\* depth max_depth; 0 is returned only for a non-terminal node at max_depth
\* or for a node with such a node below it; the root value is -1, 0 or +1.
\* ------------------------------------------------------------------------

\* The score of a terminal node for the side to move at it: +1 when the
\* winner named by is_terminal is that side.
ScoreForSideToMove(node) ==
    LET value == is_terminal(node, puzzle.player, puzzle.attacker)
    IN  IF value.value = (node.current_player = puzzle.player) THEN 1 ELSE 0 - 1

\* A non-terminal node at max_depth is node itself or lies below it on a
\* path the search may follow.
RECURSIVE ReachesDepthCutOff(_, _, _)
ReachesDepthCutOff(node, depth, path) ==
    /\ is_terminal(node, puzzle.player, puzzle.attacker) = None
    /\ \/ depth = max_depth
       \/ \E go_move \in legal_moves(node) :
              LET child == play_move(node, go_move).game
              IN  /\ child \notin path
                  /\ ReachesDepthCutOff(child, depth + 1, path \cup {child})

\* What negamax returned for node, called at depth on the path given.
ScoredAsClaimed(node, depth, path, score) ==
    /\ score \in {0 - 1, 0, 1}
    /\ is_terminal(node, puzzle.player, puzzle.attacker) # None =>
           score = ScoreForSideToMove(node)
    /\ score = 0 => ReachesDepthCutOff(node, depth, path)

C34_TerminalTestPrecedesDepthCutOff ==
    /\ (pc = "negamax" /\ stack # <<>> /\ Top.stage = "wait" /\ ret \notin {Unset, None}) =>
           ScoredAsClaimed(Top.child, Top.depth + 1, PathGames \cup {Top.child}, ret.value)
    /\ (pc = "returned" /\ result # None) =>
           ScoredAsClaimed(puzzle.game, 0, {puzzle.game}, result.value)

\* A terminal node at depth max_depth has just been scored +1 or -1.
C34_Witness ==
    /\ pc = "negamax"
    /\ stack # <<>>
    /\ Top.stage = "wait"
    /\ Top.depth + 1 = max_depth
    /\ ret \in {Some(1), Some(0 - 1)}
    /\ is_terminal(Top.child, puzzle.player, puzzle.attacker) # None
    /\ ret.value = ScoreForSideToMove(Top.child)

\* A non-terminal node at depth max_depth has just been scored 0.
C34_WitnessUndetermined ==
    /\ pc = "negamax"
    /\ stack # <<>>
    /\ Top.stage = "wait"
    /\ Top.depth + 1 = max_depth
    /\ ret = Some(0)
    /\ is_terminal(Top.child, puzzle.player, puzzle.attacker) = None


\* ------------------------------------------------------------------------
\* C35: after two consecutive passes the defender wins exactly when the
\* defender still has stones on the board: is_terminal returns Some(won)
\* with won = (player is the defender) when the defender has stones and
\* won = (player is the attacker) when the defender has none.
\* ------------------------------------------------------------------------

\* The side the verdict lets win: the player on Some(true), the other side
\* on Some(false).
Winner == IF verdict.value THEN puzzle.player ELSE flip(puzzle.player)

C35_DefenderWinsExactlyWithStones ==
    (Evaluated /\ puzzle.game.pass_state = "PassedTwice") =>
        /\ verdict \in {Some(TRUE), Some(FALSE)}
        /\ DefenderHasStones => (Winner = Defender /\ verdict.value = (puzzle.player = Defender))
        /\ ~DefenderHasStones =>
               (Winner = puzzle.attacker /\ verdict.value = (puzzle.player = puzzle.attacker))

\* The player is the defender and has no stone left after two passes: the
\* oracle lets the attacker win.
C35_Witness ==
    /\ Evaluated
    /\ puzzle.game.pass_state = "PassedTwice"
    /\ puzzle.player = Defender
    /\ ~DefenderHasStones
    /\ StonesOf(puzzle.game.board, puzzle.attacker) # {}
    /\ verdict = Some(FALSE)
    /\ Winner = puzzle.attacker


\* ------------------------------------------------------------------------
\* Vocabulary of C36: the first pass of the Benson iteration of the call
\* ------------------------------------------------------------------------

BensonCalled == returned # Unset /\ invoked.fn = "unconditionally_alive_blocks_for_player"

\* The maximal 4-connected parts of a set of cells.
PartsOf(x) == {groups(x)[i] : i \in 1..Len(groups(x))}

PassBlocks == get_bitboard_for_player(invoked.board, invoked.player)

\* The candidate regions when the first pass begins.
PassRegions == small_x_enclosed_regions(invoked.board, invoked.player)

\* The blocks that survive the first pass, and the ones it removes.
PassSurvivors == benson_pass(invoked.board, PassRegions, groups(PassBlocks), 1, PassBlocks)

PassRemoved == PassBlocks \ PassSurvivors

\* The candidate regions after the first pass.
PassRegionsAfter == regions_after_pass(PassRegions, PassRemoved)

Touches(region, block) == expand_one(block) \cap region # {}

GridTouching(p, q) ==
    /\ p # q
    /\ GridCol(p) - GridCol(q) \in {0 - 1, 0, 1}
    /\ GridRow(p) - GridRow(q) \in {0 - 1, 0, 1}

\* For every cell, the cells of the grid one step away from it.
GridTouchingCells == [p \in GridCells |-> {q \in GridCells : GridTouching(p, q)}]

BoundaryCells(region) == UNION {GridTouchingCells[p] : p \in region} \ region

\* The cells that hold a stone of one colour, by the two words of the board.
BlackWord(board) == board.black \ board.white

WhiteWord(board) == board.white \ board.black

CandidateShape(board, region, attacker) ==
    LET boundary == BoundaryCells(region)
        attacker_stones == IF attacker = "Black" THEN BlackWord(board) ELSE WhiteWord(board)
        defender_stones == IF attacker = "Black" THEN WhiteWord(board) ELSE BlackWord(board)
    IN  /\ boundary \subseteq attacker_stones
        /\ defender_stones \subseteq region
        /\ attacker_stones \subseteq region \cup boundary
        /\ out_of_bounds(board) = GridCells \ (region \cup boundary)
        /\ board.black \cup board.white \subseteq GridCells

C37_CandidateShape ==
    candidate # Unset =>
        \E attacker \in GoPlayer : CandidateShape(candidate.value, filled_area.value, attacker)

\* A candidate with a stone of the defender inside the region, a boundary
\* cell that touches the region only diagonally, and a cell out of bounds.
C37_Witness ==
    /\ candidate # Unset
    /\ \E attacker \in GoPlayer :
           /\ CandidateShape(candidate.value, filled_area.value, attacker)
           /\ GridStonesOf(candidate.value, flip(attacker)) # {}
           /\ \E q \in GridStonesOf(candidate.value, attacker) \ filled_area.value :
                  \A p \in filled_area.value : ~GridAdjacent(p, q)
    /\ GridOutOfBoundsOf(candidate.value) # {}


\* ------------------------------------------------------------------------
\* C38: no two consecutive placements restore the board: for every Game G
\* without dead groups, every successful placement m1 by the player to move
\* and every successful placement m2 by the opponent on the result, the
\* board after m2 differs from the board of G.
\* ------------------------------------------------------------------------

\* No two successful placements in a row lead from g back to its board.
NotRestoredInTwo(g) ==
    \A m1 \in Cells :
        LET first == place_stone(g, m1)
        IN  first.tag = "Ok" =>
                \A m2 \in Cells :
                    LET second == place_stone(first.game, m2)
                    IN  second.tag = "Ok" => second.game.board # g.board

C38_TwoPlacementsNeverRestoreTheBoard ==
    (~Probed /\ ~has_dead_groups(game.board)) => NotRestoredInTwo(game)

\* A placement has just taken one stone, the retaking placement on its cell
\* is rejected as Ko, and it is the only thing that keeps the board of the
\* Game before from coming back.
C38_Witness ==
    /\ last.kind = "place"
    /\ last.captured = 1
    /\ \E position \in last.taken :
           /\ place_stone(game, position) = Err("Ko")
           /\ place_stone_without_ko_test(game, position).tag = "Ok"
           /\ place_stone_without_ko_test(game, position).game.board = last.before.board
    /\ NotRestoredInTwo(last.before)


\* ------------------------------------------------------------------------
\* C39: a successful Place(pos) by P changes the board only by adding the
\* stone of P at pos and by removing stones of the opponent of P, each of
\* them in a group the placement left without liberties; no stone of P is
\* removed and no other cell changes.
\* ------------------------------------------------------------------------

\* The empty cells next to the group of the stone at pos.
LibertiesAt(board, pos) == {q \in Around(GroupAt(board, pos)) : get_cell(board, q) = "Empty"}

PlacementFrame(before, pos, after) ==
    LET mover == before.current_player
        with_stone == WithStone(before.board, pos, mover)
        removed == StonesOf(before.board, flip(mover)) \ StonesOf(after, flip(mover))
    IN  /\ get_cell(before.board, pos) = "Empty"
        /\ StonesOf(after, mover) = StonesOf(before.board, mover) \cup {pos}
        /\ StonesOf(after, flip(mover)) \subseteq StonesOf(before.board, flip(mover))
        /\ OutOfBoundsOf(after) = OutOfBoundsOf(before.board)
        /\ \A q \in removed : LibertiesAt(with_stone, q) = {}
        /\ \A q \in Cells \ ({pos} \cup removed) : get_cell(after, q) = get_cell(before.board, q)

C39_PlacementFrame ==
    (Placed /\ last.outcome = Ok(game)) =>
        PlacementFrame(last.before, last.move.position, game.board)

\* A placement took a stone off the board and left another stone of each
\* colour where it was.
C39_Witness ==
    /\ Placed /\ last.outcome = Ok(game)
    /\ last.taken # {}
    /\ StonesOf(game.board, game.current_player) # {}
    /\ StonesOf(last.before.board, last.before.current_player) # {}
    /\ PlacementFrame(last.before, last.move.position, game.board)


\* ------------------------------------------------------------------------
\* PnSpec: Puzzle::solve of the proof-number search, then first_move
\* ------------------------------------------------------------------------

\* The nodes the tree of a run may hold; a node is developed only while its
\* children fit. Every search of the model ends below this number.
MaxTreeNodes == 30

\* The head of the loop of solve: while !self.is_solved().
solve_loop(graph) == IF is_solved(graph[root_id]) THEN "solved" ELSE "select"

\* Puzzle::new on a board of the solver, and the call of solve.
PnInit ==
    /\ GameIdle
    /\ FnIdle
    /\ GenIdle
    /\ SolveIdle
    /\ puzzle \in SolvePuzzles
    /\ verdict = Unset
    /\ tree = [id \in {root_id} |-> create_non_terminal_leaf]
    /\ current_node_id = root_id
    /\ phase = solve_loop(tree)
    /\ first_move = Unset

\* One turn of the loop of select_most_proving_node: at a leaf the loop
\* ends; otherwise an edge to a child with the proof number (Or) or the
\* disproof number (And) of the node is followed, any of them, the order
\* of the edges being the graph library's.
SelectMostProvingNode ==
    /\ phase = "select"
    /\ IF neighbors(tree, current_node_id) = {}
       THEN /\ phase' = "develop"
            /\ current_node_id' = current_node_id
       ELSE /\ \E child_id \in neighbors(tree, current_node_id) :
                  /\ IF current_type(current_node_id) = "Or"
                     THEN tree[child_id].proof_number = tree[current_node_id].proof_number
                     ELSE tree[child_id].disproof_number = tree[current_node_id].disproof_number
                  /\ current_node_id' = child_id
            /\ phase' = phase
    /\ UNCHANGED <<tree, first_move, gameVars, termVars, solveVars, fnVars, genVars>>

\* develop_current_node
DevelopCurrentNode ==
    /\ phase = "develop"
    /\ generate_moves(current_game(puzzle, current_node_id)) # Panic
    /\ Cardinality(DOMAIN tree) + Len(generate_moves(current_game(puzzle, current_node_id)).moves)
           <= MaxTreeNodes
    /\ tree' = develop_current_node(tree, current_node_id, puzzle)
    /\ phase' = "update"
    /\ UNCHANGED <<current_node_id, first_move, gameVars, termVars, solveVars, fnVars, genVars>>

\* One turn of the loop of update_ancestors: the numbers of the current node
\* are set; if they changed, the node is pruned when solved and the parent
\* becomes the current node. The loop ends at an unchanged node or at the
\* root, and solve looks at the root.
UpdateAncestors ==
    /\ phase = "update"
    /\ LET and_or_node == set_proof_and_disproof_numbers(tree, current_node_id)
           has_changed == and_or_node # tree[current_node_id]
           updated == [tree EXCEPT ![current_node_id] = and_or_node]
           pruned == prune_if_solved(updated, current_node_id)
       IN  IF ~has_changed
           THEN /\ tree' = updated
                /\ current_node_id' = current_node_id
                /\ phase' = solve_loop(updated)
           ELSE /\ tree' = pruned
                /\ IF current_node_id = root_id
                   THEN /\ current_node_id' = current_node_id
                        /\ phase' = solve_loop(pruned)
                   ELSE /\ current_node_id' = parent_of(current_node_id)
                        /\ phase' = phase
    /\ UNCHANGED <<first_move, gameVars, termVars, solveVars, fnVars, genVars>>

\* first_move after a solve that proved the root: the move on an edge to a
\* proved child, any of them; unwrap() panics when there is none.
FirstMove ==
    /\ phase = "solved"
    /\ first_move = Unset
    /\ is_proved(tree[root_id])
    /\ LET proved == {child_id \in neighbors(tree, root_id) : is_proved(tree[child_id])}
       IN  IF proved = {} THEN first_move' = Panic
           ELSE \E child_id \in proved : first_move' = Some(child_id[1])
    /\ UNCHANGED <<tree, current_node_id, phase, gameVars, termVars, solveVars, fnVars, genVars>>

PnNext ==
    \/ SelectMostProvingNode
    \/ DevelopCurrentNode
    \/ UpdateAncestors
    \/ FirstMove

PnSpec == PnInit /\ [][PnNext]_vars

\* The move is one play_move accepts on g.
place_or_pass_succeeds(g, go_move) == play_move(g, go_move).tag = "Ok"

\* ------------------------------------------------------------------------
\* C40: in the proof-number search, solve returns only when the root is
\* proved or disproved; whenever the proof number of the root is 0, an edge
\* out of the root leads to a node whose proof number is 0, the children of
\* the root never being pruned; so first_move returns a move after a solve
\* that proved the root.
\* ------------------------------------------------------------------------
C40_ProvedRootHasProvedChild ==
    /\ phase = "solved" => is_solved(tree[root_id])
    /\ is_proved(tree[root_id]) =>
           \E child_id \in neighbors(tree, root_id) : is_proved(tree[child_id])
    /\ first_move # Unset =>
           /\ first_move # Panic
           /\ place_or_pass_succeeds(puzzle.game, first_move.value)
           /\ is_proved(tree[<<first_move.value>>])

\* first_move has returned the move to a proved child after a search that
\* went below the children of the root and pruned a solved node there.
C40_Witness ==
    /\ phase = "solved"
    /\ first_move # Unset
    /\ first_move # Panic
    /\ is_proved(tree[<<first_move.value>>])
    /\ \E child_id \in neighbors(tree, root_id) :
           /\ is_solved(tree[child_id])
           /\ neighbors(tree, child_id) = {}
           /\ Puzzle_is_terminal(puzzle, current_game(puzzle, child_id)) = None
    /\ \E child_id \in neighbors(tree, root_id) : ~is_proved(tree[child_id])

====
